---- MODULE Spec2Model ----
(***************************************************************************)
(* iowow: the free-space manager (iwfsmfile.c, src/unnamed/part_001) and   *)
(* the skip-list key/value store built on it (src/src/kv/iwkv.c).          *)
(*                                                                         *)
(* The specifications of this module:                                      *)
(*   SpecFsm  the free-space manager driven through its public allocate /  *)
(*            deallocate entry points;                                     *)
(*   Spec     the key/value store (open, database creation, put, get, del, *)
(*            cursor scan, close and reopen) running on the same           *)
(*            allocator;                                                   *)
(*   SpecConc the locking of the store by threads that call the API, with  *)
(*            close, database destruction and its sweeper thread           *)
(*            (SpecConcFair: the same with fairly scheduled threads);      *)
(*   SpecAln  the block address locks of the older kv module               *)
(*            (src/unnamed/part_000).                                      *)
(***************************************************************************)
EXTENDS Integers, Sequences, FiniteSets, TLC

VARIABLES
  fsm,      \* struct IWFS_FSM_IMPL: bitmap, free-space tree and counters
  live,     \* ghost: extents handed out by allocate and not yet returned
  flast,    \* ghost: the last allocator call and its outcome
  kv,       \* the store: file image, database records, open flag
  shadow,   \* ghost: per database, the key -> value map the API calls imply
  last,     \* ghost: the last store call and what it returned
  nops,     \* ghost: number of calls made so far (bounds the exploration)
  shared,   \* locks, worker counters, database handles and sweepers (SpecConc);
            \* the map db->aln and its lock nodes (SpecAln)
  threads   \* the threads that call the API: position and arguments (SpecConc,
            \* SpecAln)

vars == <<fsm, live, flast, kv, shadow, last, nops, shared, threads>>

(***************************************************************************)
(* Arithmetic helpers                                                      *)
(***************************************************************************)
Max(S) == CHOOSE x \in S : \A y \in S : y <= x

Min(S) == CHOOSE x \in S : \A y \in S : x <= y

\* IW_ROUNDUP(x, a): x rounded up to a multiple of the power of two a.
IW_ROUNDUP(x, a) == ((x + a - 1) \div a) * a

\* uint64_t values near 2^64 are kept as their negative representative
\* (v - 2^64), so UINT64_MAX is -1 and a subtraction that wraps around is a
\* negative number.  Unsigned comparison of two representatives:
UINT64_MAX == -1

U64Lt(a, b) == IF (a >= 0) = (b >= 0) THEN a < b ELSE b < 0

U64Le(a, b) == a = b \/ U64Lt(a, b)

(***************************************************************************)
(* Free-space manager: program constants                                   *)
(***************************************************************************)
FSM_CUSTOM_HDR_DATA_OFFSET == 85

FSM_MAX_STATS_COUNT == 65535

(***************************************************************************)
(* Free-space tree (kbtree of _FSMBK keys, modelled as a set of extents)   *)
(***************************************************************************)
FSMBK(off, len) == [off |-> off, len |-> len]

\* An order of the extents by offset, then by length.
fsm_cmp_off(a, b) ==
  LET ret == (IF b.off < a.off THEN 1 ELSE 0) - (IF a.off < b.off THEN 1 ELSE 0)
  IN IF ret # 0 THEN ret
     ELSE (IF b.len < a.len THEN 1 ELSE 0) - (IF a.len < b.len THEN 1 ELSE 0)

\* _fsm_cmp: extents are ordered by length, then by offset.
fsm_cmp(a, b) ==
  LET ret == (IF b.len < a.len THEN 1 ELSE 0) - (IF a.len < b.len THEN 1 ELSE 0)
  IN IF ret # 0 THEN ret
     ELSE (IF b.off < a.off THEN 1 ELSE 0) - (IF a.off < b.off THEN 1 ELSE 0)

\* The tree's keys in traversal (ascending _fsm_cmp) order.
RECURSIVE fsm_traverse(_)
fsm_traverse(tree) ==
  IF tree = {} THEN <<>>
  ELSE LET m == CHOOSE e \in tree : \A o \in tree : fsm_cmp(e, o) <= 0
       IN <<m>> \o fsm_traverse(tree \ {m})

fsm_del_fbk(f, offset_blk, length_blk) ==
  LET hit == offset_blk = f.lfbkoff
  IN [f EXCEPT !.tree = @ \ {FSMBK(offset_blk, length_blk)},
               !.lfbkoff = IF hit THEN 0 ELSE @,
               !.lfbklen = IF hit THEN 0 ELSE @]

\* _fsm_init_fbk refuses (IW_ERROR_OVERFLOW) a length that does not fit
\* beside the offset in 64 bits; the callers ignore that and go on.
fsm_put_fbk(f, offset_blk, length_blk) ==
  IF length_blk < 0 THEN f
  ELSE LET upd == offset_blk + length_blk >= f.lfbkoff + f.lfbklen
       IN [f EXCEPT !.tree = @ \cup {FSMBK(offset_blk, length_blk)},
                    !.lfbkoff = IF upd THEN offset_blk ELSE @,
                    !.lfbklen = IF upd THEN length_blk ELSE @]

NoBlk == [off |-> -1, len |-> 0]

\* kb_intervalp: the greatest key <= k and the least key >= k.
kb_lower(tree, k) ==
  LET S == {e \in tree : fsm_cmp(e, k) <= 0}
  IN IF S = {} THEN NoBlk ELSE CHOOSE e \in S : \A o \in S : fsm_cmp(o, e) <= 0

kb_upper(tree, k) ==
  LET S == {e \in tree : fsm_cmp(e, k) >= 0}
  IN IF S = {} THEN NoBlk ELSE CHOOSE e \in S : \A o \in S : fsm_cmp(e, o) <= 0

Dist(a, b) == IF a >= b THEN a - b ELSE b - a

\* Values an operator computes once and then reads several times are bound
\* as parameters of a local operator (LET Go(v) == ... IN Go(expr)).
fsm_find_matching_fblock_lw(f, offset_blk, length_blk) ==
  LET Go(lk, uk) ==
        LET lkdist == IF lk # NoBlk /\ lk.len >= length_blk
                        THEN Dist(lk.off, offset_blk) ELSE UINT64_MAX
            ukdist == IF uk # NoBlk /\ uk # lk /\ uk.len >= length_blk
                        THEN Dist(uk.off, offset_blk) ELSE UINT64_MAX
        IN IF lk = NoBlk /\ uk = NoBlk THEN NoBlk
           ELSE IF U64Le(ukdist, lkdist) THEN uk ELSE lk
  IN Go(kb_lower(f.tree, FSMBK(offset_blk, length_blk)),
        kb_upper(f.tree, FSMBK(offset_blk, length_blk)))

(***************************************************************************)
(* Free-space bitmap.  f.bm holds the bitmap as the set of its maximal     *)
(* runs of set bits, [off |-> first bit, len |-> number of bits].          *)
(***************************************************************************)
RunEnd(r) == r.off + r.len

\* The bitmap with bits [a, a + n) set.
BmSet(bm, a, n) ==
  LET T  == {r \in bm : r.off <= a + n /\ RunEnd(r) >= a}
      lo == Min({a} \cup {r.off : r \in T})
      hi == Max({a + n} \cup {RunEnd(r) : r \in T})
  IN IF n <= 0 THEN bm ELSE (bm \ T) \cup {[off |-> lo, len |-> hi - lo]}

\* The bitmap with bits [a, a + n) cleared.
BmClear(bm, a, n) ==
  LET L == {[off |-> r.off, len |-> Min({RunEnd(r), a}) - r.off] : r \in {x \in bm : x.off < a}}
      R == {[off |-> Max({r.off, a + n}), len |-> RunEnd(r) - Max({r.off, a + n})] :
              r \in {x \in bm : RunEnd(x) > a + n}}
  IN IF n <= 0 THEN bm ELSE L \cup R

BmAnySet(bm, a, n) == \E r \in bm : r.off < a + n /\ RunEnd(r) > a

BmAllSet(bm, a, n) == n <= 0 \/ \E r \in bm : r.off <= a /\ RunEnd(r) >= a + n

BmBit(bm, b) == \E r \in bm : r.off <= b /\ b < RunEnd(r)

\* _fsm_set_bit_status_lw that never looks at _FSM_BM_STRICT.
fsm_set_bit_status_lax(f, offset_bits, length_bits, bit_status, opts) ==
  [f  |-> [f EXCEPT !.bm = IF "DRY_RUN" \in opts THEN f.bm
                           ELSE IF bit_status = 1 THEN BmSet(f.bm, offset_bits, length_bits)
                           ELSE BmClear(f.bm, offset_bits, length_bits)],
   rc |-> "OK"]

\* _fsm_set_bit_status_lw: in strict mode a bit already in the requested
\* state makes the call answer SEGMENTATION, after the bits were written
\* all the same; DRY_RUN leaves the bitmap alone.
fsm_set_bit_status_lw(f, offset_bits, length_bits, bit_status, opts) ==
  LET bad == IF bit_status = 1 THEN BmAnySet(f.bm, offset_bits, length_bits)
             ELSE ~BmAllSet(f.bm, offset_bits, length_bits)
      nbm == IF "DRY_RUN" \in opts THEN f.bm
             ELSE IF bit_status = 1 THEN BmSet(f.bm, offset_bits, length_bits)
             ELSE BmClear(f.bm, offset_bits, length_bits)
  IN [f  |-> [f EXCEPT !.bm = nbm],
      rc |-> IF "STRICT" \in opts /\ bad THEN "SEGMENTATION" ELSE "OK"]

bopts(f) == IF "STRICT" \in f.oflags THEN {"STRICT"} ELSE {}

\* _fsm_find_next_set_bit: the first set bit in [offset_bit, max_offset_bit).
fsm_find_next_set_bit(bm, offset_bit, max_offset_bit) ==
  LET S == {Max({r.off, offset_bit}) : r \in {x \in bm : RunEnd(x) > offset_bit}}
  IN IF S = {} \/ Min(S) >= max_offset_bit
       THEN [found |-> FALSE, bit |-> 0] ELSE [found |-> TRUE, bit |-> Min(S)]

\* _fsm_find_prev_set_bit: the last set bit in [min_offset_bit, offset_bit).
fsm_find_prev_set_bit(bm, offset_bit, min_offset_bit) ==
  LET S == {Min({RunEnd(r), offset_bit}) - 1 : r \in {x \in bm : x.off < offset_bit}}
  IN IF S = {} \/ Max(S) < min_offset_bit
       THEN [found |-> FALSE, bit |-> 0] ELSE [found |-> TRUE, bit |-> Max(S)]

\* The maximal runs of clear bits among the first bnum bits, by offset.
FreeRunStarts(bm, bnum) ==
  {s \in {RunEnd(r) : r \in bm} \cup {0} : s < bnum /\ ~BmBit(bm, s)}

FreeRunEnd(bm, bnum, s) == Min({r.off : r \in {x \in bm : x.off > s}} \cup {bnum})

\* The inner loop of _fsm_load_fsm_lw over bits i .. 7 of the non-zero byte
\* b: a set bit flushes the pending run of clear bits, a clear bit extends it.
RECURSIVE fsm_load_byte(_, _, _, _)
fsm_load_byte(f, b, i, fbklength) ==
  IF i = 8 THEN [f |-> f, fbklength |-> fbklength]
  ELSE LET cbnum == 8 * b + i
       IN IF BmBit(f.bm, cbnum)
            THEN IF fbklength > 0
                   THEN fsm_load_byte(fsm_put_fbk(f, cbnum - fbklength, fbklength), b, i + 1, 0)
                   ELSE fsm_load_byte(f, b, i + 1, fbklength)
            ELSE fsm_load_byte(f, b, i + 1, fbklength + 1)

\* The outer loop of _fsm_load_fsm_lw from byte b on: every zero byte adds 8
\* to the pending run, a byte of set bits with no run pending changes
\* nothing (a stretch of such bytes is taken in one step), the run left at
\* the end of the bitmap is flushed at bnum - fbklength.
RECURSIVE fsm_load_bytes(_, _, _, _)
fsm_load_bytes(f, len, b, fbklength) ==
  IF b >= len
    THEN IF fbklength > 0 THEN fsm_put_fbk(f, len * 8 - fbklength, fbklength) ELSE f
  ELSE IF ~BmAnySet(f.bm, 8 * b, 8)
    THEN LET nz == Min({r.off \div 8 : r \in {x \in f.bm : x.off >= 8 * b}} \cup {len})
             nb == Min({nz, len})
         IN fsm_load_bytes(f, len, nb, fbklength + 8 * (nb - b))
  ELSE IF fbklength = 0 /\ BmAllSet(f.bm, 8 * b, 8)
    THEN LET full == Max({RunEnd(r) \div 8 : r \in {x \in f.bm : x.off <= 8 * b /\ 8 * b < RunEnd(x)}}
                         \cup {b + 1})
         IN fsm_load_bytes(f, len, Min({full, len}), 0)
  ELSE LET r == fsm_load_byte(f, b, 0, fbklength)
       IN fsm_load_bytes(r.f, len, b + 1, r.fbklength)

\* _fsm_load_fsm_lw: the tree is rebuilt from the bitmap; lfbkoff/lfbklen
\* are not reset, only updated by the _fsm_put_fbk calls.
fsm_load_fsm_lw(f, len) == fsm_load_bytes([f EXCEPT !.tree = {}], len, 0, 0)

(***************************************************************************)
(* Page-aligned allocation                                                 *)
(***************************************************************************)
\* The full scan of _fsm_blk_allocate_aligned_lw over the tree in traversal
\* order; akoff starts as UINT64_MAX, and (klen + akoff) and
\* (klen - (noff - koff)) are computed in uint64_t.
RECURSIVE fsm_aligned_scan(_, _, _, _, _, _, _)
fsm_aligned_scan(ks, i, akoff, aklen, length_blk, max_offset_blk, psize_blk) ==
  IF i > Len(ks) THEN [akoff |-> akoff, aklen |-> aklen]
  ELSE LET koff == ks[i].off
           klen == ks[i].len
           noff == IW_ROUNDUP(koff, psize_blk)
           take == /\ U64Lt(koff, akoff)
                   /\ U64Le(noff, max_offset_blk)
                   /\ U64Lt(noff, klen + akoff)
                   /\ U64Le(length_blk, klen - (noff - koff))
       IN fsm_aligned_scan(ks, i + 1, IF take THEN koff ELSE akoff,
                           IF take THEN klen ELSE aklen,
                           length_blk, max_offset_blk, psize_blk)

\* The common tail of both branches: the pieces around the aligned range go
\* (back) into the tree and the bits are set.  The chosen extent itself is
\* not taken out of the tree, and the bits are set from akoff, not noff.
fsm_aligned_take(f, akoff, aklen0, noff, length_blk) ==
  LET aklen == aklen0 - (noff - akoff)
      Below(f0) == IF noff > akoff THEN fsm_put_fbk(f0, akoff, noff - akoff) ELSE f0
      Above(f1) ==
        IF U64Lt(length_blk, aklen)
          THEN fsm_put_fbk(f1, noff + length_blk, aklen - length_blk)
          ELSE f1
      Ret(r) == [f |-> r.f, rc |-> r.rc, off |-> noff, len |-> length_blk]
  IN Ret(fsm_set_bit_status_lw(Above(Below(f)), akoff, length_blk, 1, bopts(f)))

fsm_blk_allocate_aligned_lw(f, length_blk, max_offset_blk) ==
  LET psize_blk == f.psize \div (2 ^ f.bpow)
      NoSpace == [f |-> f, rc |-> "NO_FREE_SPACE", off |-> 0, len |-> 0]
      \* nk after the second attempt
      Second(nk) ==
        IF nk # NoBlk THEN nk ELSE fsm_find_matching_fblock_lw(f, 0, length_blk)
      Fits(akoff, aklen, noff) ==
        /\ U64Le(noff, max_offset_blk)
        /\ noff < aklen + akoff
        /\ U64Le(length_blk, aklen - (noff - akoff))
      \* akoff and aklen: those of nk when the aligned range fits in it,
      \* else what the full scan leaves (akoff = UINT64_MAX: none)
      First(nk) ==
        IF nk = NoBlk THEN [akoff |-> UINT64_MAX, aklen |-> 0]
        ELSE IF Fits(nk.off, nk.len, IW_ROUNDUP(nk.off, psize_blk))
          THEN [akoff |-> nk.off, aklen |-> nk.len]
        ELSE fsm_aligned_scan(fsm_traverse(f.tree), 1, UINT64_MAX, 0,
                              length_blk, max_offset_blk, psize_blk)
      Take(sc) ==
        IF sc.akoff = UINT64_MAX THEN NoSpace
        ELSE fsm_aligned_take(f, sc.akoff, sc.aklen,
                              IW_ROUNDUP(sc.akoff, psize_blk), length_blk)
  IN Take(First(Second(fsm_find_matching_fblock_lw(f, 0, length_blk + psize_blk))))

(***************************************************************************)
(* Deallocation                                                            *)
(***************************************************************************)
\* _fsm_blk_deallocate_lw (the asserts are compiled out in a release build).
fsm_blk_deallocate_lw(f, offset_blk, length_blk) ==
  LET end == offset_blk + length_blk
      Merge(f0, l, r) ==
        LET mleft  == IF l.found THEN offset_blk > l.bit + 1 ELSE offset_blk > 0
            left   == IF l.found THEN l.bit + 1 ELSE 0
            mright == r.found /\ r.bit > end
            koff   == IF mleft THEN left ELSE offset_blk
            klen   == length_blk + (IF mleft THEN offset_blk - left ELSE 0)
                                 + (IF mright THEN r.bit - end ELSE 0)
            Left(f1)  == IF mleft THEN fsm_del_fbk(f1, left, offset_blk - left) ELSE f1
            Right(f1) == IF mright THEN fsm_del_fbk(f1, end, r.bit - end) ELSE f1
        IN fsm_put_fbk(Right(Left(f0)), koff, klen)
      Go(r0) ==
        IF r0.rc # "OK" THEN r0
        ELSE [f  |-> Merge(r0.f,
                           fsm_find_prev_set_bit(r0.f.bm, offset_blk, 0),
                           IF r0.f.lfbkoff > 0 /\ r0.f.lfbkoff = end
                             THEN [found |-> TRUE, bit |-> r0.f.lfbkoff + r0.f.lfbklen]
                             ELSE fsm_find_next_set_bit(r0.f.bm, end, r0.f.lfbkoff)),
              rc |-> "OK"]
  IN Go(fsm_set_bit_status_lw(f, offset_blk, length_blk, 0, bopts(f)))

(***************************************************************************)
(* Bitmap (re)initialisation and resize                                    *)
(***************************************************************************)
\* _fsm_init_lw: the old bitmap is copied to the new place, the new
\* bitmap's own blocks (and, the first time, the header's) are marked, the
\* tree is reloaded and the old bitmap's blocks are given back.
fsm_init_lw(f, bmoff, bmlen) ==
  LET bsz == 2 ^ f.bpow
      Old(f4) ==
        IF f.bmlen > 0
          THEN fsm_blk_deallocate_lw(f4, f.bmoff \div bsz, f.bmlen \div bsz)
          ELSE [f |-> f4, rc |-> "OK"]
      Hdr(f2) ==
        IF f.bmlen = 0 THEN fsm_set_bit_status_lw(f2, 0, f.hdrlen \div bsz, 1, {}).f ELSE f2
  IN IF bmlen % bsz # 0 \/ bmoff % bsz # 0 \/ bmoff % f.psize # 0
       THEN [f |-> f, rc |-> "RANGE_NOT_ALIGNED"]
     ELSE IF bmlen < f.bmlen THEN [f |-> f, rc |-> "INVALID_ARGS"]
     ELSE IF bmlen * 8 < ((bmoff + bmlen) \div bsz) + 1
       THEN [f |-> f, rc |-> "INVALID_ARGS"]
     ELSE IF f.bmlen > 0 /\ f.bmoff < bmoff + bmlen /\ bmoff < f.bmoff + f.bmlen
       THEN [f |-> f, rc |-> "INVALID_ARGS"]
     ELSE Old(fsm_load_fsm_lw(
                Hdr(fsm_set_bit_status_lw(
                      [f EXCEPT !.bmoff = bmoff, !.bmlen = bmlen,
                                !.bm = IF f.bmlen > 0 THEN @ ELSE {}],
                      bmoff \div bsz, bmlen \div bsz, 1, {}).f),
                bmlen))

\* _fsm_resize_fsm_bitmap_lw.  An error of the aligned allocation other
\* than NO_FREE_SPACE leaves bmoffset holding a block number, which
\* _fsm_init_lw then takes as a byte offset.
fsm_resize_fsm_bitmap_lw(f, size) ==
  LET bsz   == 2 ^ f.bpow
      bmlen == IW_ROUNDUP(size, f.psize)
      Go(a) ==
        fsm_init_lw(a.f,
                    IF a.rc = "OK" THEN a.off * bsz
                    ELSE IF a.rc = "NO_FREE_SPACE"
                      THEN IW_ROUNDUP(8 * f.bmlen * bsz, f.psize)
                    ELSE a.off,
                    IF a.rc = "OK" THEN a.len * bsz ELSE bmlen)
  IN IF f.bmlen >= size THEN [f |-> f, rc |-> "OK"]
     ELSE Go(fsm_blk_allocate_aligned_lw(f, bmlen \div bsz, UINT64_MAX))

(***************************************************************************)
(* Allocation                                                              *)
(***************************************************************************)
\* The over-allocation test of _fsm_blk_allocate_lw,
\*   d = crzsum / crznum - rest,  s = crzvar / crznum * 6,
\*   s > 1 && d > 0 && d * d > s,
\* in exact arithmetic (with crznum = 0 the doubles are NaN or infinite
\* and the test is false).
fsm_overallocate(f, rest) ==
  /\ f.crznum > 0
  /\ f.crzvar * 6 > f.crznum
  /\ f.crzsum > rest * f.crznum
  /\ (f.crzsum - rest * f.crznum) * (f.crzsum - rest * f.crznum)
       > 6 * f.crzvar * f.crznum

\* The statistics update: crzvar += (uint64_t)((len - avg)^2 + 0.5).
fsm_update_stats(f, length_blk) ==
  LET reset == f.crznum > FSM_MAX_STATS_COUNT
      n   == (IF reset THEN 0 ELSE f.crznum) + 1
      sum == (IF reset THEN 0 ELSE f.crzsum) + length_blk
      var == IF reset THEN 0 ELSE f.crzvar
      dev == length_blk * n - sum
  IN [f EXCEPT !.crznum = n, !.crzsum = sum,
               !.crzvar = var + ((2 * dev * dev + n * n) \div (2 * n * n))]

\* _fsm_blk_allocate_lw once _fsm_find_matching_fblock_lw has answered nk.
RECURSIVE fsm_blk_allocate_lw(_, _, _, _)
fsm_blk_allocate_nk(f, nk, length_blk, offset_blk, opts) ==
  LET Fail(f1, rc) == [f |-> f1, rc |-> rc, off |-> offset_blk, len |-> length_blk]
      Extend(rz) ==
        IF rz.rc # "OK" THEN Fail(rz.f, rz.rc)
        ELSE fsm_blk_allocate_lw(rz.f, length_blk, offset_blk, opts)
      rest == nk.len - length_blk
      over == rest > 0 /\ "NO_OVERALLOCATE" \notin opts /\ fsm_overallocate(f, rest)
      olen == IF over THEN nk.len ELSE length_blk
      Done(sb) ==
        [f   |-> IF sb.rc = "OK" /\ "NO_STATS" \notin opts
                   THEN fsm_update_stats(sb.f, length_blk) ELSE sb.f,
         rc  |-> sb.rc, off |-> nk.off, len |-> olen]
      Rest(f1) ==
        IF rest > 0 /\ ~over THEN fsm_put_fbk(f1, nk.off + length_blk, rest) ELSE f1
  IN IF nk # NoBlk
       THEN Done(fsm_set_bit_status_lw(Rest(fsm_del_fbk(f, nk.off, nk.len)),
                                       nk.off, olen, 1, bopts(f)))
     ELSE IF "NO_EXTEND" \in opts THEN Fail(f, "NO_FREE_SPACE")
     ELSE Extend(fsm_resize_fsm_bitmap_lw(f, f.bmlen * 2))

fsm_blk_allocate_lw(f, length_blk, offset_blk, opts) ==
  IF "PAGE_ALIGNED" \in opts
    THEN fsm_blk_allocate_aligned_lw(f, length_blk, UINT64_MAX)
  ELSE fsm_blk_allocate_nk(f, fsm_find_matching_fblock_lw(f, offset_blk, length_blk),
                           length_blk, offset_blk, opts)

(***************************************************************************)
(* Close, open and the public allocate / deallocate                        *)
(***************************************************************************)
\* _fsm_trim_tail_lw: tries to move the bitmap below its present offset,
\* then cuts the file after the last allocated block below lfbkoff.
\* lastblk is the block the file is truncated to.
fsm_trim_tail_lw(f) ==
  LET bsz == 2 ^ f.bpow
      Cut(m, p) ==
        [f |-> m.f, rc |-> m.rc,
         lastblk |-> IF m.rc # "OK" THEN -1
                     ELSE IF p.found THEN p.bit + 1 ELSE m.f.lfbkoff]
      Last(m) == Cut(m, fsm_find_prev_set_bit(m.f.bm, m.f.lfbkoff, 0))
      Go(a) ==
        IF a.rc = "NO_FREE_SPACE" THEN Last([f |-> a.f, rc |-> "OK"])
        ELSE IF a.rc # "OK" THEN [f |-> a.f, rc |-> a.rc, lastblk |-> -1]
        ELSE IF a.off * bsz < f.bmoff THEN Last(fsm_init_lw(a.f, a.off * bsz, a.len * bsz))
        ELSE Last(fsm_blk_deallocate_lw(a.f, a.off, a.len))
  IN IF "OWRITE" \notin f.omode THEN [f |-> f, rc |-> "OK", lastblk |-> -1]
     ELSE Go(fsm_blk_allocate_aligned_lw(f, f.bmlen \div bsz, f.bmoff \div bsz))

\* _fsm_allocate: *oaddr is zeroed before it is read, so the offset hint
\* handed to _fsm_blk_allocate_lw is always block 0.
fsm_allocate(f, len, oaddr, opts) ==
  LET bsz == 2 ^ f.bpow
      Go(r) ==
        IF r.rc = "OK"
          THEN [f |-> r.f, rc |-> "OK", addr |-> r.off * bsz, len |-> r.len * bsz]
          ELSE [f |-> r.f, rc |-> r.rc, addr |-> 0, len |-> 0]
  IN IF "OWRITE" \notin f.omode THEN [f |-> f, rc |-> "READONLY", addr |-> 0, len |-> 0]
     ELSE Go(fsm_blk_allocate_lw(f, IW_ROUNDUP(len, bsz) \div bsz, 0 \div bsz, opts))

fsm_deallocate(f, addr, len) ==
  LET bsz == 2 ^ f.bpow
  IN IF "OWRITE" \notin f.omode THEN [f |-> f, rc |-> "READONLY"]
     ELSE IF addr % bsz # 0 THEN [f |-> f, rc |-> "RANGE_NOT_ALIGNED"]
     ELSE fsm_blk_deallocate_lw(f, addr \div bsz, IW_ROUNDUP(len, bsz) \div bsz)

\* struct IWFS_FSM_IMPL after calloc and _fsm_init_impl.
fsm_init_impl(psize, bpow, oflags, omode) ==
  [bmlen |-> 0, bmoff |-> 0, lfbkoff |-> 0, lfbklen |-> 0,
   crzsum |-> 0, crzvar |-> 0, crznum |-> 0, hdrlen |-> 0,
   tree |-> {}, bm |-> {}, psize |-> psize, bpow |-> bpow,
   oflags |-> oflags, omode |-> omode]

\* _fsm_init_new_lw: header length, bitmap placement, first _fsm_init_lw.
fsm_init_new_lw(f, opts_hdrlen, opts_bmlen) ==
  LET hdrlen == IW_ROUNDUP(opts_hdrlen + FSM_CUSTOM_HDR_DATA_OFFSET, 2 ^ f.bpow)
      bmlen  == IF opts_bmlen > 0 THEN IW_ROUNDUP(opts_bmlen, f.psize) ELSE f.psize
      bmoff  == IW_ROUNDUP(hdrlen, f.psize)
  IN fsm_init_lw([f EXCEPT !.hdrlen = hdrlen], bmoff, bmlen)

\* _fsm_close then iwfs_fsmfile_open on the existing file: the meta block
\* (bpow, bmoff, bmlen, statistics, hdrlen) and the bitmap come back from
\* the file, lfbkoff/lfbklen start at 0 and the tree is reloaded.
fsm_init_existing_lw(meta, psize, oflags, omode) ==
  fsm_load_fsm_lw([fsm_init_impl(psize, meta.bpow, oflags, omode)
                     EXCEPT !.bmoff = meta.bmoff, !.bmlen = meta.bmlen,
                            !.crzsum = meta.crzsum, !.crznum = meta.crznum,
                            !.crzvar = meta.crzvar, !.hdrlen = meta.hdrlen,
                            !.bm = meta.bm],
                  meta.bmlen)

\* _fsm_write_meta_lw: what the file keeps of the allocator.
fsm_write_meta_lw(f) ==
  [bpow |-> f.bpow, bmoff |-> f.bmoff, bmlen |-> f.bmlen, crzsum |-> f.crzsum,
   crznum |-> f.crznum, crzvar |-> f.crzvar, hdrlen |-> f.hdrlen, bm |-> f.bm]

\* _fsm_close: the tail of the file is cut off, then the meta block is written.
fsm_close(f) ==
  LET Go(t) == [rc |-> t.rc, lastblk |-> t.lastblk, meta |-> fsm_write_meta_lw(t.f), f |-> t.f]
  IN Go(fsm_trim_tail_lw(f))

(***************************************************************************)
(* The free-space manager as a state machine (SpecFsm)                     *)
(***************************************************************************)
\* Exploration bounds.
MaxFsmOps == 3

MaxAllocBlk == 3

\* The file the allocator is opened on: page size of the platform and the
\* block size power and custom header length given in IWFS_FSM_OPTS.
FsmPageSize == 4096

FsmBpow == 10

FsmHdrLen == 0

FsmBlk == 2 ^ FsmBpow

\* Requests (bytes, flags): a few blocks under each flag set, and one
\* request as large as the whole area the initial bitmap covers, which no
\* free extent can hold (kept out of the allocation statistics).
AllocOpts == {{}, {"PAGE_ALIGNED"}, {"NO_EXTEND"}, {"NO_OVERALLOCATE", "NO_STATS"}}

AllocReqs ==
  ({n * FsmBlk : n \in 1 .. MaxAllocBlk} \X AllocOpts)
    \cup ({8 * FsmPageSize * FsmBlk} \X {{"NO_STATS"}, {"NO_STATS", "NO_EXTEND"}})

KvIdle == [open |-> FALSE]

NoCall == [op |-> "none"]

\* No threads: the state of locks and counters outside SpecConc.
NoShared == [open |-> FALSE]

\* A file that has been in use: six plain allocations of 3, 1, 1, 1, 3 and
\* 1 blocks, of which the first, third and fifth were given back.  It is
\* left with free extents of 3, 1 and 3 blocks between extents in use.
PrepLens == <<3, 1, 1, 1, 3, 1>>

PrepFreed == {1, 3, 5}

RECURSIVE FsmPrepAlloc(_, _, _)
FsmPrepAlloc(f, got, i) ==
  IF i > Len(PrepLens) THEN [f |-> f, got |-> got]
  ELSE LET Go(r) == FsmPrepAlloc(r.f, Append(got, [addr |-> r.addr, len |-> r.len]), i + 1)
       IN Go(fsm_allocate(f, PrepLens[i] * FsmBlk, 0, {}))

RECURSIVE FsmPrepFree(_, _, _)
FsmPrepFree(f, got, todo) ==
  IF todo = {} THEN f
  ELSE LET i == Min(todo)
       IN FsmPrepFree(fsm_deallocate(f, got[i].addr, got[i].len).f, got, todo \ {i})

FsmUsed(f0) ==
  LET Go(a) == [f    |-> FsmPrepFree(a.f, a.got, PrepFreed),
                live |-> {a.got[i] : i \in DOMAIN a.got \ PrepFreed}]
  IN Go(FsmPrepAlloc(f0, <<>>, 1))

\* The file starts new, with or without IWFSM_STRICT, or used.
FsmInit ==
  /\ \E oflags \in {{}, {"STRICT"}}, used \in BOOLEAN :
       LET Go(f0) ==
             IF used THEN oflags = {} /\ fsm = FsmUsed(f0).f /\ live = FsmUsed(f0).live
             ELSE fsm = f0 /\ live = {}
       IN Go(fsm_init_new_lw(fsm_init_impl(FsmPageSize, FsmBpow, oflags,
                                           {"OREAD", "OWRITE"}),
                             FsmHdrLen, 0).f)
  /\ flast = NoCall
  /\ kv = KvIdle
  /\ shadow = <<>>
  /\ last = NoCall
  /\ nops = 0
  /\ shared = NoShared
  /\ threads = <<>>

\* A deallocate has answered SEGMENTATION: the caller gave back what it
\* did not own, and no further call is made on the file.
FsmMisused == flast.op = "deallocate" /\ flast.rc = "SEGMENTATION"

\* Offset hints of a request (the value of *oaddr at the call): none, and
\* the address behind the bitmap of a new file.  A request with flags is
\* made without a hint.
AllocHints == {0, 2 * FsmPageSize}

\* IWFS_FSM.allocate.  free: every block of the extent that came back was
\* clear in the bitmap before the call; want: the free extent that
\* _fsm_find_matching_fblock_lw selects for the hinted block offset.
\* clash: the extent that came back shares a byte with an extent handed
\* out before and not given back, with the header or with the bitmap;
\* bmlen0, bm0: the length of the bitmap and its bits before the call; fits: the extents of
\* the free-space tree before the call that are long enough.
FsmAllocate ==
  /\ nops < MaxFsmOps
  /\ ~FsmMisused
  /\ \E req \in AllocReqs : \E hint \in (IF req[2] = {} THEN AllocHints ELSE {0}) :
       LET Go(r) ==
             /\ fsm' = r.f
             /\ live' = IF r.rc = "OK" THEN live \cup {[addr |-> r.addr, len |-> r.len]}
                        ELSE live
             /\ flast' = [op |-> "allocate", rc |-> r.rc, addr |-> r.addr, len |-> r.len,
                          req |-> req[1], opts |-> req[2], hint |-> hint,
                          want |-> fsm_find_matching_fblock_lw(
                                     fsm, hint \div FsmBlk,
                                     IW_ROUNDUP(req[1], FsmBlk) \div FsmBlk),
                          free |-> \A b \in r.addr \div FsmBlk ..
                                             (r.addr + r.len) \div FsmBlk - 1 :
                                     ~BmBit(fsm.bm, b),
                          clash |-> \E e \in live \cup {[addr |-> 0, len |-> r.f.hdrlen],
                                                        [addr |-> r.f.bmoff, len |-> r.f.bmlen]} :
                                      e.addr < r.addr + r.len /\ r.addr < e.addr + e.len,
                          bmlen0 |-> fsm.bmlen,
                          bm0 |-> fsm.bm,
                          fits |-> {k \in fsm.tree :
                                      k.len >= IW_ROUNDUP(req[1], FsmBlk) \div FsmBlk}]
       IN Go(fsm_allocate(fsm, req[1], hint, req[2]))
  /\ nops' = nops + 1
  /\ UNCHANGED <<kv, shadow, last, shared, threads>>

\* Ranges that are given back although some block of them is not
\* allocated: one or two blocks at the second and third block of the file.
\* They are drawn on a file opened with IWFSM_STRICT only.
StrayRanges(f) ==
  IF "STRICT" \notin f.oflags THEN {}
  ELSE {e \in [addr : {2 * FsmBlk, 3 * FsmBlk}, len : {FsmBlk, 2 * FsmBlk}] :
          ~BmAllSet(f.bm, e.addr \div FsmBlk, e.len \div FsmBlk)}

\* IWFS_FSM.deallocate of an extent obtained from allocate, or of a stray
\* range.  alloc: every block of the range was set in the bitmap before the
\* call; some: at least one was; bm0: the bitmap before the call.
FsmDeallocate ==
  /\ nops < MaxFsmOps
  /\ ~FsmMisused
  /\ \E e \in live \cup StrayRanges(fsm) :
       LET Go(r) ==
             /\ fsm' = r.f
             /\ live' = live \ {e}
             /\ flast' = [op |-> "deallocate", rc |-> r.rc, addr |-> e.addr, len |-> e.len,
                          req |-> e.len, opts |-> {}, bm0 |-> fsm.bm,
                          alloc |-> BmAllSet(fsm.bm, e.addr \div FsmBlk,
                                             IW_ROUNDUP(e.len, FsmBlk) \div FsmBlk),
                          some |-> BmAnySet(fsm.bm, e.addr \div FsmBlk,
                                            IW_ROUNDUP(e.len, FsmBlk) \div FsmBlk)]
       IN Go(fsm_deallocate(fsm, e.addr, e.len))
  /\ nops' = nops + 1
  /\ UNCHANGED <<kv, shadow, last, shared, threads>>

\* IWFS_FSM.close, then iwfs_fsmfile_open on the file that close left.
\* tree0: the free-space tree before close; treec: the tree that close left
\* after trimming the tail; lastblk: the block the file was cut at.
FsmReopen ==
  /\ nops < MaxFsmOps
  /\ ~FsmMisused
  /\ flast.op # "reopen"
  /\ LET c == fsm_close(fsm)
     IN /\ c.rc = "OK"
        /\ fsm' = fsm_init_existing_lw(c.meta, fsm.psize, fsm.oflags, fsm.omode)
        /\ flast' = [op |-> "reopen", rc |-> c.rc, addr |-> 0, len |-> 0, req |-> 0,
                     opts |-> {}, tree0 |-> fsm.tree, treec |-> c.f.tree,
                     lastblk |-> c.lastblk]
  /\ nops' = nops + 1
  /\ UNCHANGED <<live, kv, shadow, last, shared, threads>>

FsmNext == FsmAllocate \/ FsmDeallocate \/ FsmReopen

SpecFsm == FsmInit /\ [][FsmNext]_vars



(***************************************************************************)
(* Free-space manager: properties                                          *)
(***************************************************************************)
RECURSIVE SumLen(_)
SumLen(S) == IF S = {} THEN 0 ELSE LET e == CHOOSE x \in S : TRUE IN e.len + SumLen(S \ {e})

\* Blocks the bitmap covers.
FsmCovered == 8 * fsm.bmlen

\* Number of set bits among the covered blocks.
FsmSetBits ==
  SumLen({[off |-> r.off, len |-> Min({RunEnd(r), FsmCovered}) - r.off] :
            r \in {x \in fsm.bm : x.off < FsmCovered}})

\* The blocks owned by somebody: the file header, the bitmap itself and
\* every extent handed out by allocate and not yet given back.
FsmOwners ==
  {[off |-> 0, len |-> fsm.hdrlen \div (2 ^ fsm.bpow)],
   [off |-> fsm.bmoff \div (2 ^ fsm.bpow), len |-> fsm.bmlen \div (2 ^ fsm.bpow)]}
    \cup {[off |-> e.addr \div (2 ^ fsm.bpow), len |-> e.len \div (2 ^ fsm.bpow)] : e \in live}

Inside(b, e) == e.off <= b /\ b < e.off + e.len

\* Block numbers at which ownership, the bitmap or the tree can change.
FsmEdges ==
  {b \in UNION {{e.off - 1, e.off, e.off + e.len - 1, e.off + e.len} :
                  e \in FsmOwners \cup fsm.bm \cup fsm.tree} : 0 <= b /\ b < FsmCovered}

\* C5: after every completed allocate (plain or page-aligned) or
\* deallocate, the number of set bits plus the total length of the extents
\* in the free-space tree equals the number of blocks the bitmap covers.
C5_Conservation ==
  (flast.op \in {"allocate", "deallocate"} /\ flast.rc = "OK")
    => FsmSetBits + SumLen(fsm.tree) = FsmCovered

\* C6 (I6): after any sequence of allocate (also page-aligned), deallocate
\* and bitmap-resize operations a bit is set iff its block belongs to a
\* live entity, and is clear iff its block lies inside an extent of the tree.
C6_BitmapMatchesOwners ==
  \A b \in FsmEdges :
    /\ BmBit(fsm.bm, b) <=> \E e \in FsmOwners : Inside(b, e)
    /\ ~BmBit(fsm.bm, b) <=> \E e \in fsm.tree : Inside(b, e)

\* The blocks of the extent the last allocate returned.
FsmLastBlocks == flast.addr \div FsmBlk .. (flast.addr + flast.len) \div FsmBlk - 1

\* C13: a successful allocate with PAGE_ALIGNED returns an extent of at
\* least the requested length that starts on a page boundary, whose blocks
\* were all free before the call and are all marked allocated, and in no
\* extent of the free-space tree, after it.
C13_AlignedAllocate ==
  (flast.op = "allocate" /\ flast.rc = "OK" /\ "PAGE_ALIGNED" \in flast.opts)
    => /\ flast.len >= flast.req
       /\ flast.addr % FsmPageSize = 0
       /\ flast.free
       /\ \A b \in FsmLastBlocks :
            /\ BmBit(fsm.bm, b)
            /\ ~\E e \in fsm.tree : Inside(b, e)

\* C14: when the caller of allocate supplies an offset hint, the extent
\* returned is the free extent selected for the hinted block offset among
\* those that fit (requests without PAGE_ALIGNED, which scans from 0).
C14_HintUsed ==
  (flast.op = "allocate" /\ flast.rc = "OK" /\ flast.hint # 0
     /\ "PAGE_ALIGNED" \notin flast.opts /\ flast.want # NoBlk)
    => flast.addr = flast.want.off * FsmBlk

\* C7 (I7): no two extents of the free-space tree overlap, and no two are
\* adjacent without having been merged.
C7_TreeDisjointMerged ==
  \A a, b \in fsm.tree :
    a # b => (a.off + a.len < b.off \/ b.off + b.len < a.off)

\* C22: on a file opened with STRICT, a deallocate of a range in which some
\* block is not allocated fails with SEGMENTATION.
C22_StrictDeallocate ==
  (flast.op = "deallocate" /\ "STRICT" \in fsm.oflags /\ ~flast.alloc)
    => flast.rc = "SEGMENTATION"

\* A range of two blocks was given back of which one was allocated and the
\* other was not.
C22_Witness ==
  /\ flast.op = "deallocate" /\ "STRICT" \in fsm.oflags
  /\ ~flast.alloc /\ flast.some /\ flast.rc = "SEGMENTATION"

\* The extent the last allocate returned, in blocks.
FsmLastOff == flast.addr \div FsmBlk

FsmLastLen == flast.len \div FsmBlk

FsmBestFit(S) ==
  CHOOSE e \in S : \A o \in S : e.len < o.len \/ (e.len = o.len /\ e.off <= o.off)

IWKV_MAX_KVSZ == 268435455

IWKV_FSM_BPOW == 6

KVHDRSZ == 255

SLEVELS == 30

AANUM == 2 * SLEVELS + 3

SBLK_LKLEN == 64

DB_SZ == 5 * (2 ^ IWKV_FSM_BPOW)

SBLK_SZ == 4 * (2 ^ IWKV_FSM_BPOW)

KVBLK_IDXNUM == 32

KVBLK_INISZPOW == 9

KVBLK_HDRSZ == 3

KVBLK_MAX_IDX_SZ == (8 + 5) * KVBLK_IDXNUM

ADDR2BLK(addr) == addr \div (2 ^ IWKV_FSM_BPOW)

BLK2ADDR(blk) == blk * (2 ^ IWKV_FSM_BPOW)

\* Flags of _fsm_allocate / reallocate calls made by the store.
KvAllocOpts == {"NO_OVERALLOCATE", "SOLID_ALLOCATED_SPACE", "NO_STATS"}

\* A null pointer into the lookup context's arenas.
NULL == -1

(***************************************************************************)
(* Bytes: keys and values are sequences of bytes (0 .. 255)                *)
(***************************************************************************)
\* IW_VNUMSIZE: the number of bytes of a variable-length integer.
IW_VNUMSIZE(n) ==
  IF n < 128 THEN 1 ELSE IF n < 16384 THEN 2 ELSE IF n < 2097152 THEN 3
  ELSE IF n < 268435456 THEN 4 ELSE 5

\* strncmp(s1, s2, n): the bytes are compared as unsigned chars up to the
\* first difference, the first NUL or n bytes, whichever comes first.
strncmp(s1, s2, n) ==
  LET D == {i \in 1 .. n : s1[i] # s2[i] \/ s1[i] = 0}
      Go(i) == IF s1[i] = s2[i] THEN 0 ELSE IF s1[i] < s2[i] THEN -1 ELSE 1
  IN IF D = {} THEN 0 ELSE Go(Min(D))

\* The little-endian numbers held in two buffers of the same length,
\* compared from the most significant byte down.
RECURSIVE LeNumCmp(_, _, _)
LeNumCmp(v1, v2, i) ==
  IF i < 1 THEN 0
  ELSE IF v1[i] > v2[i] THEN -1
  ELSE IF v1[i] < v2[i] THEN 1
  ELSE LeNumCmp(v1, v2, i - 1)

\* _cmp_key(dbflg, v1, v1len, v2, v2len).  With the asserts compiled out a
\* numeric key of the wrong length compares equal to everything.
cmp_key(dbflg, v1, v2) ==
  LET Str(rv) == IF rv = 0 THEN Len(v2) - Len(v1) ELSE rv
  IN IF "UINT64_KEYS" \in dbflg
       THEN (IF Len(v1) # 8 \/ Len(v2) # 8 THEN 0 ELSE LeNumCmp(v1, v2, 8))
     ELSE IF "UINT32_KEYS" \in dbflg
       THEN (IF Len(v1) # 4 \/ Len(v2) # 4 THEN 0 ELSE LeNumCmp(v1, v2, 4))
     ELSE Str(strncmp(v2, v1, Min({Len(v1), Len(v2)})))

(***************************************************************************)
(* The file image.  kv.mm maps the address of every block that was written *)
(* to what the block holds:                                                *)
(*   a database header  [t |-> "db", dbflg, id, next, p0, n, c]            *)
(*   a skip-list node   [t |-> "sblk", flags, lvl, lkl, pnum, p0, kvblkn,  *)
(*                       pi, n, lk]                                        *)
(*   a pair block       [t |-> "kvblk", szpow, idxsz, pidx, data]          *)
(* data maps the position of a pair inside its block to [key, val]; bytes  *)
(* nobody wrote are zero.                                                  *)
(***************************************************************************)
ZeroN == [i \in 0 .. SLEVELS - 1 |-> 0]

ZeroPi == [i \in 0 .. KVBLK_IDXNUM - 1 |-> 0]

ZeroPidx == [i \in 0 .. KVBLK_IDXNUM - 1 |-> [off |-> 0, len |-> 0]]

ZeroBlk == [t |-> "zero"]

MmAt(mm, addr) == IF addr \in DOMAIN mm THEN mm[addr] ELSE ZeroBlk

MmPut(mm, addr, blk) ==
  [a \in DOMAIN mm \cup {addr} |-> IF a = addr THEN blk ELSE mm[a]]

\* The database header found at addr (all zero where none was written).
MmDb(mm, addr) ==
  LET Go(b) ==
        IF b.t = "db" THEN b
        ELSE [t |-> "zero", dbflg |-> {}, id |-> 0, next |-> 0, p0 |-> 0,
              n |-> ZeroN, c |-> ZeroN]
  IN Go(MmAt(mm, addr))

\* The pair block found at addr.
MmKvblk(mm, addr) ==
  LET Go(b) ==
        IF b.t = "kvblk" THEN b
        ELSE [t |-> "kvblk", szpow |-> 0, idxsz |-> 0, pidx |-> ZeroPidx,
              data |-> <<>>]
  IN Go(MmAt(mm, addr))

\* Size in bytes of a stored pair [klen:vn, key, value].
PairSize(p) == IW_VNUMSIZE(Len(p.key)) + Len(p.key) + Len(p.val)

\* The pairs of a block after len bytes were written at position pos: what
\* the written range overlaps is gone.
DataClear(data, pos, len) ==
  LET keep == {q \in DOMAIN data : q + PairSize(data[q]) <= pos \/ pos + len <= q}
  IN [q \in keep |-> data[q]]

DataPut(data, pos, p) ==
  LET d == DataClear(data, pos, PairSize(p))
  IN [q \in DOMAIN d \cup {pos} |-> IF q = pos THEN p ELSE d[q]]

\* memmove of n bytes inside a block: the pairs lying in [from, from + n)
\* appear at [to, to + n); what the destination overlapped is gone.
DataMove(data, from, to, n) ==
  LET src == {q \in DOMAIN data : from <= q /\ q + PairSize(data[q]) <= from + n}
      d   == DataClear(data, to, n)
  IN IF n <= 0 \/ from = to THEN data
     ELSE [q \in DOMAIN d \cup {s - from + to : s \in src} |->
             IF (q - to + from) \in src THEN data[q - to + from] ELSE d[q]]

\* The first n bytes of a stored value (bytes past its end read as zero).
ValBytes(val, n) == [i \in 1 .. n |-> IF i <= Len(val) THEN val[i] ELSE 0]

RECURSIVE SumFn(_, _)
SumFn(f, i) == IF i < 0 THEN 0 ELSE f[i] + SumFn(f, i - 1)

(***************************************************************************)
(* KVBLK.  An operation of the store works on a record w ("the world"):    *)
(* the allocator w.fsm, the file image w.mm, the database list w.dbs, the  *)
(* lookup context w.lx with its arenas saa / kaa (a pointer to an SBLK or  *)
(* KVBLK is its index in the arena), the result code w.rc and the output   *)
(* parameters of the call just made (w.ptr, w.idx, w.found, w.key, w.val). *)
(***************************************************************************)
ZeroKvp == [off |-> 0, len |-> 0, ridx |-> 0]

ZeroKvblk ==
  [addr |-> 0, maxoff |-> 0, idxsz |-> 0, zidx |-> 0, szpow |-> 0, flags |-> {},
   pidx |-> [i \in 0 .. KVBLK_IDXNUM - 1 |-> ZeroKvp]]

AAPOS_INC(aan) == IF aan < AANUM - 1 THEN aan + 1 ELSE 0

SetRc(w, rc) == [w EXCEPT !.rc = rc]

\* The first empty slot of a pair index other than slot skip, or -1.
FirstZeroSlot(pidx, skip) ==
  LET Z == {i \in 0 .. KVBLK_IDXNUM - 1 : pidx[i].len = 0 /\ i # skip}
  IN IF Z = {} THEN -1 ELSE Min(Z)

kvblk_create(w, baddr, kvbpow) ==
  [w EXCEPT !.lx.kaa[w.lx.kaan] =
              [ZeroKvblk EXCEPT !.addr = baddr,
                                !.idxsz = 2 * IW_VNUMSIZE(0) * KVBLK_IDXNUM,
                                !.szpow = kvbpow, !.flags = {"DURTY"}],
            !.lx.kaan = AAPOS_INC(@),
            !.ptr = w.lx.kaan]

\* The pair [klen:vn, key, value] a slot points at.
PairAt(mm, kb, idx) ==
  LET Go(data, pos) ==
        IF pos \in DOMAIN data THEN data[pos] ELSE [key |-> <<>>, val |-> <<>>]
  IN Go(MmKvblk(mm, kb.addr).data, 2 ^ kb.szpow - kb.pidx[idx].off)

kvblk_peek_key(kb, idx, mm) ==
  LET Go(p) ==
        IF Len(p.key) = 0 THEN [rc |-> "CORRUPTED", key |-> <<>>]
        ELSE [rc |-> "OK", key |-> p.key]
  IN IF kb.pidx[idx].len # 0 THEN Go(PairAt(mm, kb, idx))
     ELSE [rc |-> "OK", key |-> <<>>]

\* _kvblk_getkv (and _kvblk_getkey, _kvblk_getvalue, which return one half).
kvblk_getkv(kb, mm, idx) ==
  LET kvp == kb.pidx[idx]
      Go(p, klen, step) ==
        IF klen < 1 \/ klen > kvp.len \/ klen > kvp.off
          THEN [rc |-> "CORRUPTED", key |-> <<>>, val |-> <<>>]
        ELSE [rc |-> "OK", key |-> p.key,
              val |-> IF kvp.len > klen + step
                        THEN ValBytes(p.val, kvp.len - klen - step) ELSE <<>>]
      Rd(p) == Go(p, Len(p.key), IW_VNUMSIZE(Len(p.key)))
  IN IF kvp.len = 0 THEN [rc |-> "OK", key |-> <<>>, val |-> <<>>]
     ELSE Rd(PairAt(mm, kb, idx))

\* _kvblk_at_mm: the view goes to *kbp, or to the next arena slot.
kvblk_at_mm(w, addr, kbp) ==
  LET k == IF kbp # NULL THEN kbp ELSE w.lx.kaan
      View(b) ==
        LET used == {i \in 0 .. KVBLK_IDXNUM - 1 : b.pidx[i].len # 0}
        IN [addr |-> addr,
            maxoff |-> Max({0} \cup {b.pidx[i].off : i \in used}),
            idxsz |-> b.idxsz,
            zidx |-> FirstZeroSlot(b.pidx, -1),
            szpow |-> b.szpow, flags |-> {},
            pidx |-> [i \in 0 .. KVBLK_IDXNUM - 1 |->
                        [off |-> b.pidx[i].off, len |-> b.pidx[i].len, ridx |-> i]]]
      Bad(b) == b.idxsz > KVBLK_MAX_IDX_SZ
                  \/ \E i \in 0 .. KVBLK_IDXNUM - 1 : b.pidx[i].len # 0 /\ b.pidx[i].off = 0
      Go(b) ==
        IF Bad(b) THEN [w EXCEPT !.lx.kaa[k] = View(b), !.ptr = NULL, !.rc = "CORRUPTED"]
        ELSE [w EXCEPT !.lx.kaa[k] = View(b),
                       !.lx.kaan = IF kbp = NULL THEN AAPOS_INC(@) ELSE @,
                       !.ptr = k, !.rc = "OK"]
  IN Go(MmKvblk(w.mm, addr))

kvblk_compacted_offset(kb) ==
  SumFn([i \in 0 .. KVBLK_IDXNUM - 1 |-> kb.pidx[i].len], KVBLK_IDXNUM - 1)

kvblk_compacted_dsize(kb) ==
  KVBLK_HDRSZ
    + SumFn([i \in 0 .. KVBLK_IDXNUM - 1 |->
               kb.pidx[i].len + IW_VNUMSIZE(kb.pidx[i].len) + IW_VNUMSIZE(kb.pidx[i].off)],
            KVBLK_IDXNUM - 1)

\* _kvblk_sync_mm: szpow, the pair index and its size go to the file.
kvblk_sync_mm(w, k) ==
  LET kb == w.lx.kaa[k]
      sp == SumFn([i \in 0 .. KVBLK_IDXNUM - 1 |->
                     IW_VNUMSIZE(kb.pidx[i].off) + IW_VNUMSIZE(kb.pidx[i].len)],
                  KVBLK_IDXNUM - 1)
  IN IF "DURTY" \notin kb.flags THEN w
     ELSE [w EXCEPT !.mm = MmPut(@, kb.addr,
                                 [t |-> "kvblk", szpow |-> kb.szpow, idxsz |-> sp,
                                  pidx |-> [i \in 0 .. KVBLK_IDXNUM - 1 |->
                                              [off |-> kb.pidx[i].off, len |-> kb.pidx[i].len]],
                                  data |-> MmKvblk(w.mm, kb.addr).data]),
                    !.lx.kaa[k].idxsz = sp,
                    !.lx.kaa[k].flags = @ \ {"DURTY"}]

\* The file image with the pairs of the block at addr replaced.
MmSetData(mm, addr, data) == MmPut(mm, addr, [MmKvblk(mm, addr) EXCEPT !.data = data])

\* The slots in S in the order the merge sort on the offset leaves them
\* (a stable sort: equal offsets stay in slot order).
RECURSIVE kvblk_sorted(_, _)
kvblk_sorted(pidx, S) ==
  IF S = {} THEN <<>>
  ELSE LET m == CHOOSE i \in S : \A j \in S :
                  pidx[i].off < pidx[j].off \/ (pidx[i].off = pidx[j].off /\ i <= j)
       IN <<m>> \o kvblk_sorted(pidx, S \ {m})

\* The loop of _kvblk_compact_mm over the sorted copy of the index: each
\* pair moves towards the end of the block, next to the one before it.
RECURSIVE kvblk_compact_loop(_, _, _, _, _, _, _)
kvblk_compact_loop(pidx, data, end, order, i, coff, idxsiz) ==
  IF i > Len(order) THEN [pidx |-> pidx, data |-> data, coff |-> coff, idxsiz |-> idxsiz]
  ELSE LET r    == pidx[order[i]].ridx
           kvp  == pidx[r]
           noff == coff + kvp.len
           mv   == kvp.off > noff
       IN kvblk_compact_loop(
            IF mv THEN [pidx EXCEPT ![r].off = noff] ELSE pidx,
            IF mv THEN DataMove(data, end - kvp.off, end - noff, kvp.len) ELSE data,
            end, order, i + 1, coff + kvp.len,
            idxsiz + IW_VNUMSIZE(IF mv THEN noff ELSE kvp.off) + IW_VNUMSIZE(kvp.len))

kvblk_compact_mm(w, k, sync) ==
  LET kb == w.lx.kaa[k]
      Sync(w1) == IF sync THEN kvblk_sync_mm(w1, k) ELSE w1
      Go(order, c) ==
        Sync([w EXCEPT !.mm = MmSetData(@, kb.addr, c.data),
                       !.lx.kaa[k].pidx = c.pidx,
                       !.lx.kaa[k].zidx = FirstZeroSlot(c.pidx, -1),
                       !.lx.kaa[k].idxsz = c.idxsiz + (KVBLK_IDXNUM - Len(order)) * 2,
                       !.lx.kaa[k].maxoff = c.coff,
                       !.lx.kaa[k].flags = @ \cup {"DURTY"}])
      Sorted(order) ==
        Go(order, kvblk_compact_loop(kb.pidx, MmKvblk(w.mm, kb.addr).data,
                                     2 ^ kb.szpow, order, 1, 0, 0))
  IN IF kvblk_compacted_offset(kb) = kb.maxoff THEN w
     ELSE Sorted(kvblk_sorted(kb.pidx, {i \in 0 .. KVBLK_IDXNUM - 1 : kb.pidx[i].off # 0}))

kvblk_maxkvoff(kb) == Max({0} \cup {kb.pidx[i].off : i \in 0 .. KVBLK_IDXNUM - 1})

\* IWFS_FSM.reallocate: shrinks in place by giving the tail back; grows in
\* place when the blocks behind the extent are free, and otherwise moves it.
fsm_reallocate(f, nlen, addr, len, opts) ==
  LET bsz  == 2 ^ f.bpow
      nblk == IW_ROUNDUP(nlen, bsz) \div bsz
      cblk == len \div bsz
      oblk == addr \div bsz
      Ext  == {e \in f.tree : e.off = oblk + cblk /\ e.len >= nblk - cblk}
      Shrink(d) == [f |-> d.f, rc |-> d.rc, addr |-> addr,
                    len |-> IF d.rc = "OK" THEN nblk * bsz ELSE len]
      Bits(s) == [f |-> s.f, rc |-> s.rc, addr |-> addr,
                  len |-> IF s.rc = "OK" THEN nblk * bsz ELSE len]
      InPlace(e) ==
        Bits(fsm_set_bit_status_lw(
               IF e.len > nblk - cblk
                 THEN fsm_put_fbk(fsm_del_fbk(f, e.off, e.len),
                                  oblk + nblk, e.len - (nblk - cblk))
                 ELSE fsm_del_fbk(f, e.off, e.len),
               oblk + cblk, nblk - cblk, 1, bopts(f)))
      Free(d, a) == [f |-> d.f, rc |-> d.rc,
                     addr |-> IF d.rc = "OK" THEN a.off * bsz ELSE addr,
                     len  |-> IF d.rc = "OK" THEN a.len * bsz ELSE len]
      Move(a) ==
        IF a.rc # "OK" THEN [f |-> a.f, rc |-> a.rc, addr |-> addr, len |-> len]
        ELSE Free(fsm_blk_deallocate_lw(a.f, oblk, cblk), a)
  IN IF "OWRITE" \notin f.omode THEN [f |-> f, rc |-> "READONLY", addr |-> addr, len |-> len]
     ELSE IF nblk = cblk THEN [f |-> f, rc |-> "OK", addr |-> addr, len |-> len]
     ELSE IF nblk < cblk THEN Shrink(fsm_blk_deallocate_lw(f, oblk + nblk, cblk - nblk))
     ELSE IF Ext # {} THEN InPlace(CHOOSE e \in Ext : TRUE)
     ELSE Move(fsm_blk_allocate_lw(f, nblk, oblk, opts))

\* The reallocation as the store sees it: a block that moved takes its
\* bytes along; the new address and length come back in w.addr, w.len.
kv_reallocate(w, nlen, addr, len) ==
  LET Go(r) ==
        [w EXCEPT !.fsm = r.f, !.rc = r.rc, !.addr = r.addr, !.len = r.len,
                  !.mm = IF r.rc = "OK" /\ r.addr # addr
                           THEN MmPut(@, r.addr, MmAt(w.mm, addr)) ELSE @]
  IN Go(fsm_reallocate(w.fsm, nlen, addr, len, KvAllocOpts))

kvblk_rmkv(w, k, idx, opts) ==
  LET kb   == w.lx.kaa[k]
      nlen == 2 ^ kb.szpow
      Slot(w0) ==
        [w0 EXCEPT !.lx.kaa[k] =
           [kb EXCEPT
              !.maxoff = IF kb.pidx[idx].off >= kb.maxoff
                           THEN Max({0} \cup {kb.pidx[i].off :
                                                i \in (0 .. KVBLK_IDXNUM - 1) \ {idx}})
                           ELSE @,
              !.pidx[idx].len = 0,
              !.pidx[idx].off = 0,
              !.flags = @ \cup {"DURTY"},
              !.zidx = IF @ < 0 \/ idx < @ THEN idx ELSE @]]
      dsz  == kvblk_compacted_dsize(Slot(w).lx.kaa[k])
      npow == Max({KVBLK_INISZPOW}
                    \cup {p \in KVBLK_INISZPOW + 1 .. kb.szpow - 1 : 2 ^ (p - 1) < dsz})
      Mv(w1, maxoff) ==
        [w1 EXCEPT !.mm = MmSetData(@, kb.addr,
                            DataMove(MmKvblk(w1.mm, kb.addr).data,
                                     nlen - maxoff, 2 ^ npow - maxoff, maxoff))]
      Move(w1) == Mv(w1, kvblk_maxkvoff(w1.lx.kaa[k]))
      Done(w3) ==
        IF w3.rc # "OK" THEN w3
        ELSE SetRc(kvblk_sync_mm([w3 EXCEPT !.lx.kaa[k].addr = w3.addr,
                                            !.lx.kaa[k].szpow = npow], k),
                   "OK")
  IN IF "NO_RESIZE" \notin opts /\ kb.szpow > KVBLK_INISZPOW /\ nlen >= 2 * dsz
       THEN Done(kv_reallocate(Move(kvblk_compact_mm(Slot(w), k, FALSE)),
                               2 ^ npow, kb.addr, nlen))
     ELSE IF "SYNC" \in opts THEN SetRc(kvblk_sync_mm(Slot(w), k), "OK")
     ELSE SetRc(Slot(w), "OK")

\* _kvblk_addkv from the label start on: compaction is tried once, then the
\* block is reallocated to the next power of two that holds the pair.  A
\* failed reallocation comes in as w.rc and is returned.
RECURSIVE kvblk_addkv_start(_, _, _, _, _, _)
kvblk_addkv_start(w, k, key, val, psz, compacted) ==
  LET kb   == w.lx.kaa[k]
      msz  == 2 ^ kb.szpow - KVBLK_HDRSZ - kb.idxsz - kb.maxoff
      noff == kb.maxoff + psz
      rsz  == psz + IW_VNUMSIZE(noff) + IW_VNUMSIZE(psz)
      nsz  == (rsz - msz) + 2 ^ kb.szpow
      npow == Min({p \in kb.szpow + 1 .. 30 : 2 ^ p >= nsz})
      Slot(pidx) ==
        [w EXCEPT !.lx.kaa[k].pidx = pidx,
                  !.lx.kaa[k].maxoff = noff,
                  !.lx.kaa[k].flags = @ \cup {"DURTY"},
                  !.lx.kaa[k].zidx = FirstZeroSlot(pidx, kb.zidx),
                  !.mm = MmSetData(@, kb.addr,
                                   DataPut(MmKvblk(w.mm, kb.addr).data,
                                           2 ^ kb.szpow - noff, [key |-> key, val |-> val])),
                  !.idx = kb.zidx,
                  !.rc = "OK"]
      Moved(w1) ==
        IF w1.rc # "OK" THEN w1
        ELSE [w1 EXCEPT !.lx.kaa[k].addr = w1.addr,
                        !.lx.kaa[k].szpow = npow,
                        !.mm = MmSetData(@, w1.addr,
                                 DataMove(MmKvblk(w1.mm, w1.addr).data,
                                          2 ^ kb.szpow - kb.maxoff,
                                          w1.len - kb.maxoff, kb.maxoff))]
  IN IF w.rc # "OK" THEN w
     ELSE IF msz >= rsz
       THEN Slot([kb.pidx EXCEPT ![kb.zidx] = [off |-> noff, len |-> psz, ridx |-> kb.zidx]])
     ELSE IF ~compacted /\ kvblk_compacted_offset(kb) # kb.maxoff
       THEN kvblk_addkv_start(kvblk_compact_mm(w, k, FALSE), k, key, val, psz, TRUE)
     ELSE kvblk_addkv_start(Moved(kv_reallocate(w, 2 ^ npow, kb.addr, 2 ^ kb.szpow)),
                            k, key, val, psz, TRUE)

\* struct IWDB of the lookup context.
LxDb(w) == w.dbs[w.lx.db]

\* Sorted duplicate values.  The host is little endian, as the platform of
\* src/src/platform/linux is built: IW_HTOIL / IW_ITOHL leave the bytes of
\* a number as they are in memory, least significant byte first.
IWDB_DUP_FLAGS == {"DUP_UINT32_VALS", "DUP_UINT64_VALS"}

\* The four bytes of a uint32_t, and the number four bytes hold.
U32Le(n) == <<n % 256, (n \div 256) % 256, (n \div 65536) % 256, (n \div 16777216) % 256>>

RdU32(b) == b[1] + 256 * b[2] + 65536 * b[3] + 16777216 * b[4]

\* The comparator applied to the bytes in memory order, the first byte first.
ucmp_mem(o1, o2, i) ==
  LET At(s) == IF s = {} THEN 0 ELSE IF o1[Min(s)] > o2[Min(s)] THEN 1 ELSE -1
  IN At({x \in 1 .. i : o1[x] # o2[x]})

\* _u4cmp / _u8cmp on two numbers of i bytes held least significant byte first.
RECURSIVE ucmp(_, _, _)
ucmp(o1, o2, i) ==
  IF i < 1 THEN 0
  ELSE IF o1[i] > o2[i] THEN 1
  ELSE IF o1[i] < o2[i] THEN -1
  ELSE ucmp(o1, o2, i - 1)

\* The nels elements of elsz bytes an array of bytes starts with, and the
\* bytes of a sequence of elements.
ArrEls(buf, nels, elsz) ==
  [i \in 1 .. nels |-> SubSeq(buf, (i - 1) * elsz + 1, i * elsz)]

RECURSIVE ArrBytes(_)
ArrBytes(els) == IF els = <<>> THEN <<>> ELSE Head(els) \o ArrBytes(Tail(els))

\* iwarr_sorted_insert(els, nels, elsize, eptr, cmp, skipeq = true): the
\* element goes before the first greater one, the elements from there on
\* move up by one; -1 and no change when an equal element is there.
iwarr_sorted_insert(buf, nels, elsz, e) ==
  LET els == ArrEls(buf, nels, elsz)
      lt  == {i \in 1 .. nels : ucmp(els[i], e, elsz) < 0}
      eq  == {i \in 1 .. nels : ucmp(els[i], e, elsz) = 0}
      at  == Cardinality(lt)
  IN IF eq # {} THEN [idx |-> -1, buf |-> buf]
     ELSE [idx |-> at,
           buf |-> ArrBytes(SubSeq(els, 1, at) \o <<e>> \o SubSeq(els, at + 1, nels))
                   \o SubSeq(buf, (nels + 1) * elsz + 1, Len(buf))]

\* iwarr_sorted_remove(els, nels, elsize, eptr, cmp): the elements behind
\* the equal one move down by one; false and no change when there is none.
iwarr_sorted_remove(buf, nels, elsz, e) ==
  LET els == ArrEls(buf, nels, elsz)
      eq  == {i \in 1 .. nels : ucmp(els[i], e, elsz) = 0}
      at  == Min(eq)
  IN IF eq = {} THEN [ok |-> FALSE, buf |-> buf]
     ELSE [ok |-> TRUE,
           buf |-> ArrBytes(SubSeq(els, 1, at - 1) \o SubSeq(els, at + 1, nels))
                   \o SubSeq(buf, (nels - 1) * elsz + 1, Len(buf))]

\* _kvblk_addkv; *oidx comes back in w.idx.  A failure of the step before
\* comes in as w.rc and is returned.  In a database with DUP flags a value
\* given by the caller becomes the array [count = 1, value].
kvblk_addkv(w, k, key, val, opflags, internal) ==
  LET dup  == ~internal /\ LxDb(w).dbflg \cap IWDB_DUP_FLAGS # {}
      uval == IF dup THEN U32Le(1) \o val ELSE val
      psz  == IW_VNUMSIZE(Len(key)) + Len(key) + Len(uval)
  IN IF w.rc # "OK" THEN w
     ELSE IF w.lx.kaa[k].zidx < 0 THEN [w EXCEPT !.idx = -1, !.rc = "KVBLOCK_FULL"]
     ELSE IF dup /\ "DUP_REMOVE" \in opflags THEN [w EXCEPT !.idx = -1, !.rc = "NOTFOUND"]
     ELSE IF dup /\ (("DUP_UINT32_VALS" \in LxDb(w).dbflg /\ Len(val) # 4)
                     \/ ("DUP_UINT64_VALS" \in LxDb(w).dbflg /\ Len(val) # 8))
       THEN [w EXCEPT !.idx = -1, !.rc = "DUP_VALUE_SIZE"]
     ELSE IF psz > IWKV_MAX_KVSZ THEN [w EXCEPT !.idx = -1, !.rc = "MAXKVSZ"]
     ELSE kvblk_addkv_start([w EXCEPT !.idx = -1], k, key, uval, psz, FALSE)

\* The DUP section with a DUP_REMOVE that leaves the count as it is.
kvblk_updatev_dup_keepcount(w, k, idx, val, opflags) ==
  LET kb    == w.lx.kaa[k]
      kvp   == kb.pidx[idx]
      p     == PairAt(w.mm, kb, idx)
      len   == IF kvp.len = 0 THEN 0
               ELSE kvp.len - Len(p.key) - IW_VNUMSIZE(Len(p.key))
      buf   == ValBytes(p.val, len)
      sz    == RdU32(buf)
      esz   == Len(val)
      avail == len - (4 + sz * esz)
      arr   == SubSeq(buf, 5, len)
      Wr(b) == MmSetData(w.mm, kb.addr,
                         DataPut(MmKvblk(w.mm, kb.addr).data, 2 ^ kb.szpow - kvp.off,
                                 [key |-> p.key, val |-> b]))
      Fin(rc, w1) == [done |-> TRUE, rc |-> rc, uval |-> val, w |-> w1]
      Rm(r) ==
        IF sz = 0 \/ ~r.ok THEN Fin("NOTFOUND", w)
        ELSE Fin("OK",
                 [w EXCEPT !.mm = Wr(U32Le(sz) \o r.buf),
                           !.lx.kaa[k].pidx[idx].len =
                              IF len >= (4 + (sz - 1) * esz) * 2 THEN @ - len \div 2 ELSE @,
                           !.lx.kaa[k].flags =
                              IF len >= (4 + (sz - 1) * esz) * 2 THEN @ \cup {"DURTY"} ELSE @])
      Ins(r) ==
        IF r.idx = -1 THEN Fin("OK", w)
        ELSE Fin("OK", [w EXCEPT !.mm = Wr(U32Le(sz + 1) \o r.buf)])
      nlen  == Min({n \in {len * 2, len * 4, len * 8, len * 16} : n - (4 + sz * esz) >= esz})
      Grow(r) ==
        IF r.idx = -1 THEN Fin("OK", w)
        ELSE [done |-> FALSE, rc |-> "OK", uval |-> U32Le(sz + 1) \o r.buf, w |-> w]
  IN IF ("DUP_UINT32_VALS" \in LxDb(w).dbflg /\ esz # 4)
        \/ ("DUP_UINT64_VALS" \in LxDb(w).dbflg /\ esz # 8)
       THEN Fin("DUP_VALUE_SIZE", w)
     ELSE IF len < 4 THEN Fin("CORRUPTED", w)
     ELSE IF len < 4 + sz * esz THEN Fin("CORRUPTED", w)
     ELSE IF "DUP_REMOVE" \in opflags THEN Rm(iwarr_sorted_remove(arr, sz, esz, val))
     ELSE IF avail >= esz THEN Ins(iwarr_sorted_insert(arr, sz, esz, val))
     ELSE Grow(iwarr_sorted_insert(arr \o [i \in 1 .. nlen - len |-> 0], sz, esz, val))

\* The DUP section of _kvblk_updatev.  done: the function goes to finish
\* with rc; otherwise the update goes on with the value uval.  What the
\* section writes into the stored value is in w.
kvblk_updatev_dup(w, k, idx, val, opflags) ==
  LET kb    == w.lx.kaa[k]
      kvp   == kb.pidx[idx]
      p     == PairAt(w.mm, kb, idx)
      len   == IF kvp.len = 0 THEN 0
               ELSE kvp.len - Len(p.key) - IW_VNUMSIZE(Len(p.key))
      buf   == ValBytes(p.val, len)
      sz    == RdU32(buf)
      esz   == Len(val)
      avail == len - (4 + sz * esz)
      arr   == SubSeq(buf, 5, len)
      Wr(b) == MmSetData(w.mm, kb.addr,
                         DataPut(MmKvblk(w.mm, kb.addr).data, 2 ^ kb.szpow - kvp.off,
                                 [key |-> p.key, val |-> b]))
      Fin(rc, w1) == [done |-> TRUE, rc |-> rc, uval |-> val, w |-> w1]
      Rm(r) ==
        IF sz = 0 \/ ~r.ok THEN Fin("NOTFOUND", w)
        ELSE Fin("OK",
                 [w EXCEPT !.mm = Wr(U32Le(sz - 1) \o r.buf),
                           !.lx.kaa[k].pidx[idx].len =
                              IF len >= (4 + (sz - 1) * esz) * 2 THEN @ - len \div 2 ELSE @,
                           !.lx.kaa[k].flags =
                              IF len >= (4 + (sz - 1) * esz) * 2 THEN @ \cup {"DURTY"} ELSE @])
      Ins(r) ==
        IF r.idx = -1 THEN Fin("OK", w)
        ELSE Fin("OK", [w EXCEPT !.mm = Wr(U32Le(sz + 1) \o r.buf)])
      nlen  == Min({n \in {len * 2, len * 4, len * 8, len * 16} : n - (4 + sz * esz) >= esz})
      Grow(r) ==
        IF r.idx = -1 THEN Fin("OK", w)
        ELSE [done |-> FALSE, rc |-> "OK", uval |-> U32Le(sz + 1) \o r.buf, w |-> w]
  IN IF ("DUP_UINT32_VALS" \in LxDb(w).dbflg /\ esz # 4)
        \/ ("DUP_UINT64_VALS" \in LxDb(w).dbflg /\ esz # 8)
       THEN Fin("DUP_VALUE_SIZE", w)
     ELSE IF len < 4 THEN Fin("CORRUPTED", w)
     ELSE IF len < 4 + sz * esz THEN Fin("CORRUPTED", w)
     ELSE IF "DUP_REMOVE" \in opflags THEN Rm(iwarr_sorted_remove(arr, sz, esz, val))
     ELSE IF avail >= esz THEN Ins(iwarr_sorted_insert(arr, sz, esz, val))
     ELSE Grow(iwarr_sorted_insert(arr \o [i \in 1 .. nlen - len |-> 0], sz, esz, val))

\* _kvblk_updatev behind its DUP section.  key may be the null key <<>>;
\* *idxp goes in as idx and comes back in w.idx.
kvblk_updatev_raw(w, k, idx, key, val, opflags) ==
  LET kb    == w.lx.kaa[k]
      kvp   == kb.pidx[idx]
      pos   == 2 ^ kb.szpow - kvp.off
      p     == PairAt(w.mm, kb, idx)
      rsize == IW_VNUMSIZE(Len(p.key)) + Len(p.key) + Len(val)
      prev  == Max({0} \cup {kb.pidx[i].off :
                               i \in {j \in 0 .. KVBLK_IDXNUM - 1 :
                                        kb.pidx[j].off # 0 /\ kb.pidx[j].off < kvp.off}})
      InPlace ==
        [w EXCEPT !.mm = MmSetData(@, kb.addr,
                                   DataPut(MmKvblk(w.mm, kb.addr).data, pos,
                                           [key |-> p.key, val |-> val])),
                  !.lx.kaa[k].pidx[idx].len = rsize,
                  !.lx.kaa[k].flags = IF rsize # kvp.len THEN @ \cup {"DURTY"} ELSE @,
                  !.idx = idx,
                  !.rc = "OK"]
  IN IF key # <<>> /\ p.key # key THEN [w EXCEPT !.idx = idx, !.rc = "CORRUPTED"]
     ELSE IF rsize <= kvp.len THEN InPlace
     ELSE IF key = <<>> /\ (Len(p.key) < 1 \/ Len(p.key) > kvp.len \/ Len(p.key) > kvp.off)
       THEN [w EXCEPT !.lx.kaa[k].flags = @ \cup {"DURTY"}, !.idx = idx, !.rc = "CORRUPTED"]
     ELSE IF kvp.off - prev >= rsize THEN InPlace
     ELSE kvblk_addkv(kvblk_rmkv([w EXCEPT !.lx.kaa[k].flags = @ \cup {"DURTY"},
                                           !.idx = idx],
                                 k, idx, {"NO_RESIZE"}),
                      k, IF key # <<>> THEN key ELSE p.key, val, opflags, TRUE)

\* _kvblk_updatev: the DUP section for a value given by the caller of a
\* database with DUP flags, then the update with the value it leaves.
kvblk_updatev(w, k, idx, key, val, opflags, internal) ==
  LET Go(d) ==
        IF d.done THEN [d.w EXCEPT !.idx = idx, !.rc = d.rc]
        ELSE kvblk_updatev_raw(d.w, k, idx, key, d.uval, opflags)
  IN Go(IF internal \/ LxDb(w).dbflg \cap IWDB_DUP_FLAGS = {}
          THEN [done |-> FALSE, rc |-> "OK", uval |-> val, w |-> w]
        ELSE kvblk_updatev_dup(w, k, idx, val, opflags))

(***************************************************************************)
(* SBLK                                                                    *)
(***************************************************************************)
ZeroSblk ==
  [addr |-> 0, flags |-> {}, lvl |-> 0, p0 |-> 0, n |-> ZeroN, kvblk |-> NULL,
   kvblkn |-> 0, lkl |-> 0, pnum |-> 0, pi |-> ZeroPi, lk |-> <<>>]

\* The skip-list node found at addr: bytes nobody wrote read as zero, and
\* the first byte of a database header or of a pair block is not a valid
\* flags byte.
MmSblk(mm, addr) ==
  LET Go(b) ==
        IF b.t = "sblk" THEN b
        ELSE [t |-> b.t, flags |-> {}, lvl |-> 0, lkl |-> 0, pnum |-> 0, p0 |-> 0,
              kvblkn |-> 0, pi |-> ZeroPi, n |-> ZeroN, lk |-> <<>>]
  IN Go(MmAt(mm, addr))

sblk_release(w, p) == [w EXCEPT !.lx.saa[p].kvblk = NULL]

sblk_loadkvblk_mm(w, p) ==
  LET Go(w1) == [w1 EXCEPT !.lx.saa[p].kvblk = w1.ptr]
  IN IF w.lx.saa[p].kvblk = NULL /\ w.lx.saa[p].kvblkn # 0
       THEN Go(kvblk_at_mm(w, BLK2ADDR(w.lx.saa[p].kvblkn), NULL))
     ELSE SetRc(w, "OK")

\* _sblk_destroy that returns the node to the allocator and leaves its
\* pair block allocated.
sblk_destroy_node_only(w, p) ==
  LET sblk == w.lx.saa[p]
      Go(w1, d1) == [w1 EXCEPT !.fsm = d1.f, !.rc = d1.rc]
      Rel(w1) == Go(w1, fsm_deallocate(w1.fsm, sblk.addr, SBLK_SZ))
  IN IF "DB" \in sblk.flags THEN SetRc(sblk_release(w, p), "OK")
     ELSE Rel([sblk_release(w, p) EXCEPT
                 !.dbs[w.lx.db].lcnt[sblk.lvl] = IF @ # 0 THEN @ - 1 ELSE @,
                 !.g.nodes[w.lx.db] = @ \ {sblk.addr}])

\* _sblk_destroy that leaves the node counted in lcnt.
sblk_destroy_keep_lcnt(w, p) ==
  LET sblk == w.lx.saa[p]
      kvb_addr  == BLK2ADDR(sblk.kvblkn)
      kvb_szpow == IF sblk.kvblk = NULL THEN MmKvblk(w.mm, kvb_addr).szpow
                   ELSE w.lx.kaa[sblk.kvblk].szpow
      Two(w2, d1, d2) ==
        [w2 EXCEPT !.fsm = d2.f, !.rc = IF d1.rc # "OK" THEN d1.rc ELSE d2.rc]
      One(w1, d1) == Two(w1, d1, fsm_deallocate(d1.f, kvb_addr, 2 ^ kvb_szpow))
      Go(w1) == One(w1, fsm_deallocate(w1.fsm, sblk.addr, SBLK_SZ))
  IN IF "DB" \in sblk.flags THEN SetRc(sblk_release(w, p), "OK")
     ELSE Go([sblk_release(w, p) EXCEPT !.g.nodes[w.lx.db] = @ \ {sblk.addr}])

\* _sblk_destroy.  The ghost w.g.nodes forgets the node.
sblk_destroy(w, p) ==
  LET sblk == w.lx.saa[p]
      kvb_addr  == BLK2ADDR(sblk.kvblkn)
      kvb_szpow == IF sblk.kvblk = NULL THEN MmKvblk(w.mm, kvb_addr).szpow
                   ELSE w.lx.kaa[sblk.kvblk].szpow
      Two(w2, d1, d2) ==
        [w2 EXCEPT !.fsm = d2.f, !.rc = IF d1.rc # "OK" THEN d1.rc ELSE d2.rc]
      One(w1, d1) == Two(w1, d1, fsm_deallocate(d1.f, kvb_addr, 2 ^ kvb_szpow))
      Go(w1) == One(w1, fsm_deallocate(w1.fsm, sblk.addr, SBLK_SZ))
  IN IF "DB" \in sblk.flags THEN SetRc(sblk_release(w, p), "OK")
     ELSE Go([sblk_release(w, p) EXCEPT
                !.dbs[w.lx.db].lcnt[sblk.lvl] = IF @ # 0 THEN @ - 1 ELSE @,
                !.dbs[w.lx.db].flags =
                   IF w.dbs[w.lx.db].lcnt[sblk.lvl] # 0 THEN @ \cup {"DURTY"} ELSE @,
                !.g.nodes[w.lx.db] = @ \ {sblk.addr}])

\* _sblk_genlevel: lvl is the number of trailing zero bits of the random
\* number; a level whose lower neighbour holds no node is not used.
sblk_genlevel(db, lvl) ==
  Max({0} \cup {l \in 1 .. Min({lvl, SLEVELS - 1}) : db.lcnt[l - 1] # 0})

\* _sblk_create.  The ghost w.g.nodes learns the node.
sblk_create(w, nlevel, kvbpow0, baddr) ==
  LET kvbpow  == IF kvbpow0 < KVBLK_INISZPOW THEN KVBLK_INISZPOW ELSE kvbpow0
      Node(w1, a) ==
        [w1 EXCEPT !.lx.saa[w1.lx.saan] =
                     [ZeroSblk EXCEPT !.addr = a.addr, !.flags = {"DURTY"}, !.lvl = nlevel,
                                      !.kvblk = w1.ptr,
                                      !.kvblkn = ADDR2BLK(a.addr + SBLK_SZ)],
                   !.lx.saan = AAPOS_INC(@),
                   !.dbs[w.lx.db].lcnt[nlevel] = @ + 1,
                   !.dbs[w.lx.db].flags = @ \cup {"DURTY"},
                   !.g.nodes[w.lx.db] = @ \cup {a.addr},
                   !.ptr = w1.lx.saan,
                   !.rc = "OK"]
      Go(a) ==
        IF a.rc # "OK" THEN [w EXCEPT !.fsm = a.f, !.ptr = NULL, !.rc = a.rc]
        ELSE Node(kvblk_create([w EXCEPT !.fsm = a.f], a.addr + SBLK_SZ, kvbpow), a)
  IN Go(fsm_allocate(w.fsm, SBLK_SZ + 2 ^ kvbpow, baddr, KvAllocOpts))

\* _sblk_at: the view is built in the next arena slot; fields the code does
\* not assign keep what the slot held.
sblk_at(w, addr, flgs) ==
  LET s     == w.lx.saan
      old   == w.lx.saa[s]
      flags == w.lx.sblk_flags \cup flgs
      Ret(v, rc) ==
        [w EXCEPT !.lx.saa[s] = v, !.lx.saan = AAPOS_INC(@), !.ptr = s, !.rc = rc]
      Db(b) ==
        LET nz  == {i \in 0 .. SLEVELS - 1 : b.n[i] = 0}
            cnt == IF nz = {} THEN SLEVELS ELSE Min(nz)
        IN Ret([old EXCEPT !.kvblk = NULL, !.addr = addr, !.flags = {"DB"} \cup flags,
                           !.lvl = IF cnt > 0 THEN cnt - 1 ELSE 0,
                           !.p0 = 0, !.kvblkn = 0, !.lkl = 0, !.pnum = KVBLK_IDXNUM,
                           !.pi = ZeroPi,
                           !.n = [i \in 0 .. SLEVELS - 1 |-> IF i <= cnt THEN b.n[i] ELSE @[i]]],
               "OK")
      Node(b) ==
        IF b.t \notin {"sblk", "zero"}
          THEN Ret([old EXCEPT !.kvblk = NULL, !.addr = addr], "CORRUPTED")
        ELSE Ret([old EXCEPT !.kvblk = NULL, !.addr = addr, !.flags = b.flags \cup flags,
                             !.lvl = b.lvl, !.lkl = b.lkl, !.pnum = b.pnum, !.p0 = b.p0,
                             !.kvblkn = b.kvblkn, !.pi = b.pi,
                             !.n = [i \in 0 .. SLEVELS - 1 |->
                                      IF i <= b.lvl THEN b.n[i] ELSE @[i]],
                             !.lk = b.lk],
                 "OK")
      DbTail(b) ==
        Ret([old EXCEPT !.kvblk = NULL, !.addr = 0, !.flags = {"DB"} \cup flags, !.lvl = 0,
                        !.kvblkn = 0, !.lkl = 0, !.pnum = KVBLK_IDXNUM, !.pi = ZeroPi,
                        !.p0 = IF b.p0 = 0 THEN ADDR2BLK(LxDb(w).addr) ELSE b.p0],
            "OK")
  IN IF addr = LxDb(w).addr THEN Db(MmDb(w.mm, addr))
     ELSE IF addr # 0 THEN Node(MmSblk(w.mm, addr))
     ELSE DbTail(MmDb(w.mm, LxDb(w).addr))

\* _sblk_sync_mm: a dirty view goes to the file.  The view of a database
\* header writes n[] and the level counters, the view of its tail writes
\* p0; a node writes its header, n[0 .. lvl] and the lower key.
sblk_sync_mm(w, p) ==
  LET sblk == w.lx.saa[p]
      Kv(w1) ==
        IF sblk.kvblk # NULL /\ "DURTY" \in w1.lx.kaa[sblk.kvblk].flags
          THEN kvblk_sync_mm(w1, sblk.kvblk) ELSE w1
      hdr  == MmDb(w.mm, LxDb(w).addr)
      node == MmSblk(w.mm, sblk.addr)
  IN IF "DURTY" \notin sblk.flags THEN Kv(w)
     ELSE IF "DB" \in sblk.flags
       THEN [w EXCEPT !.lx.saa[p].flags = @ \ {"DURTY"},
                      !.mm = MmPut(@, LxDb(w).addr,
                                   IF sblk.addr # 0
                                     THEN [hdr EXCEPT !.n = sblk.n, !.c = LxDb(w).lcnt]
                                     ELSE [hdr EXCEPT !.p0 = sblk.p0])]
     ELSE Kv([w EXCEPT !.lx.saa[p].flags = @ \ {"DURTY"},
                       !.mm = MmPut(@, sblk.addr,
                                    [t |-> "sblk", flags |-> sblk.flags \cap {"FULL_LKEY"},
                                     lvl |-> sblk.lvl, lkl |-> sblk.lkl, pnum |-> sblk.pnum,
                                     p0 |-> sblk.p0, kvblkn |-> sblk.kvblkn, pi |-> sblk.pi,
                                     n |-> [i \in 0 .. SLEVELS - 1 |->
                                              IF i <= sblk.lvl THEN sblk.n[i] ELSE node.n[i]],
                                     lk |-> SubSeq(sblk.lk, 1, sblk.lkl)])])

\* _sblk_sync_and_release_mm(lx, &sblk, mm) with mm given or null.
sblk_sync_and_release_mm(w, p, mm) ==
  IF mm THEN sblk_release(sblk_sync_mm(w, p), p) ELSE sblk_release(w, p)

\* The binary search of _sblk_find_pi_mm and _sblk_insert_pi_mm.
RECURSIVE sblk_search(_, _, _, _, _, _, _)
sblk_search(sblk, kb, mm, dbflg, key, lb, ub) ==
  LET idx == (ub + lb) \div 2
      Go(pk, cr) ==
        IF pk.rc # "OK" THEN [rc |-> pk.rc, found |-> FALSE, idx |-> 0]
        ELSE IF cr = 0 THEN [rc |-> "OK", found |-> TRUE, idx |-> idx]
        ELSE IF cr < 0
          THEN (IF idx + 1 > ub THEN [rc |-> "OK", found |-> FALSE, idx |-> idx + 1]
                ELSE sblk_search(sblk, kb, mm, dbflg, key, idx + 1, ub))
        ELSE (IF lb > idx - 1 THEN [rc |-> "OK", found |-> FALSE, idx |-> idx]
              ELSE sblk_search(sblk, kb, mm, dbflg, key, lb, idx - 1))
      Cmp(pk) == Go(pk, IF pk.rc = "OK" THEN cmp_key(dbflg, pk.key, key) ELSE 0)
  IN Cmp(kvblk_peek_key(kb, sblk.pi[idx], mm))

\* _sblk_find_pi_mm; *found and *idxp come back in w.found and w.idx.
sblk_find_pi_mm(w, p, key) ==
  LET sblk == w.lx.saa[p]
      Go(r) == [w EXCEPT !.found = r.found, !.idx = IF r.rc = "OK" THEN r.idx ELSE @,
                         !.rc = r.rc]
  IN IF "DB" \in sblk.flags THEN [w EXCEPT !.found = FALSE, !.idx = KVBLK_IDXNUM, !.rc = "OK"]
     ELSE IF sblk.pnum < 1 THEN [w EXCEPT !.found = FALSE, !.idx = 0, !.rc = "OK"]
     ELSE Go(sblk_search(sblk, w.lx.kaa[sblk.kvblk], w.mm, LxDb(w).dbflg, key,
                         0, sblk.pnum - 1))

\* PiInsert without the memmove: slot nidx is written at position idx over
\* the entry that was there.
PiInsertNoShift(pi, idx, nidx, nels) ==
  [i \in 0 .. KVBLK_IDXNUM - 1 |-> IF i = idx THEN nidx ELSE pi[i]]

\* pi with slot nidx put at position idx and the nels - idx entries from
\* idx on moved up by one.
PiInsert(pi, idx, nidx, nels) ==
  [i \in 0 .. KVBLK_IDXNUM - 1 |->
     IF i = idx THEN nidx ELSE IF i > idx /\ i <= nels THEN pi[i - 1] ELSE pi[i]]

\* The lower key of a node becomes key.
SetLk(sblk, key) ==
  [sblk EXCEPT !.lkl = Min({SBLK_LKLEN, Len(key)}),
               !.lk = SubSeq(key, 1, Min({SBLK_LKLEN, Len(key)})),
               !.flags = IF Len(key) <= SBLK_LKLEN THEN @ \cup {"FULL_LKEY"}
                         ELSE @ \ {"FULL_LKEY"}]

sblk_insert_pi_mm(w, p, nidx, key) ==
  LET sblk == w.lx.saa[p]
      nels == sblk.pnum
      Go(r) ==
        IF r.rc # "OK" THEN SetRc(w, r.rc)
        ELSE [w EXCEPT !.lx.saa[p].pnum = IF r.found THEN @ ELSE @ + 1,
                       !.lx.saa[p].pi = PiInsert(@, r.idx, nidx, nels),
                       !.idx = r.idx, !.rc = "OK"]
  IN IF nels < 1
       THEN [w EXCEPT !.lx.saa[p].pi[0] = nidx, !.lx.saa[p].pnum = @ + 1,
                      !.idx = 0, !.rc = "OK"]
     ELSE Go(sblk_search(sblk, w.lx.kaa[sblk.kvblk], w.mm, LxDb(w).dbflg, key, 0, nels - 1))

sblk_addkv2(w, p, idx, key, val, opflags, internal) ==
  LET k == w.lx.saa[p].kvblk
      Lk(s) == IF idx = 0 THEN SetLk(s, key) ELSE s
      Go(w1) ==
        IF w1.rc # "OK" THEN w1
        ELSE [w1 EXCEPT !.lx.saa[p] =
                Lk([@ EXCEPT !.pi = PiInsert(@, idx, w1.idx, w.lx.saa[p].pnum),
                             !.kvblkn = ADDR2BLK(w1.lx.kaa[k].addr),
                             !.pnum = @ + 1,
                             !.flags = @ \cup {"DURTY"}])]
  IN IF w.lx.saa[p].pnum >= KVBLK_IDXNUM THEN SetRc(w, "KVBLOCK_FULL")
     ELSE IF ~internal /\ "DUP_REMOVE" \in opflags THEN SetRc(w, "NOTFOUND")
     ELSE Go(kvblk_addkv(w, k, key, val, opflags, internal))

sblk_addkv(w, p, key, val, opflags, internal) ==
  LET k == w.lx.saa[p].kvblk
      Lk(s, idx) == IF idx = 0 THEN SetLk(s, key) ELSE s
      Ins(w2) ==
        IF w2.rc # "OK" THEN w2
        ELSE [w2 EXCEPT !.lx.saa[p] =
                [Lk(@, w2.idx) EXCEPT !.kvblkn = ADDR2BLK(w2.lx.kaa[k].addr),
                                     !.flags = @ \cup {"DURTY"}]]
      Go(w1) == IF w1.rc # "OK" THEN w1 ELSE Ins(sblk_insert_pi_mm(w1, p, w1.idx, key))
  IN IF w.lx.saa[p].pnum >= KVBLK_IDXNUM THEN SetRc(w, "KVBLOCK_FULL")
     ELSE IF ~internal /\ "DUP_REMOVE" \in opflags THEN SetRc(w, "NOTFOUND")
     ELSE Go(kvblk_addkv(w, k, key, val, opflags, internal))

sblk_updatekv(w, p, idx, key, val, opflags) ==
  LET k == w.lx.saa[p].kvblk
      Go(w1) ==
        IF w1.rc # "OK" THEN w1
        ELSE [w1 EXCEPT !.lx.saa[p].kvblkn = ADDR2BLK(w1.lx.kaa[k].addr),
                        !.lx.saa[p].pi[idx] = w1.idx,
                        !.lx.saa[p].flags = @ \cup {"DURTY"}]
  IN Go(kvblk_updatev(w, k, w.lx.saa[p].pi[idx], key, val, opflags, FALSE))

sblk_rmkv(w, p, idx) ==
  LET k == w.lx.saa[p].kvblk
      Lk(w2, pk) ==
        IF pk.rc # "OK" THEN SetRc(w2, pk.rc)
        ELSE [w2 EXCEPT !.lx.saa[p] = SetLk(@, pk.key)]
      Low(w2) ==
        IF idx # 0 THEN w2
        ELSE IF w2.lx.saa[p].pnum > 0
          THEN Lk(w2, kvblk_peek_key(w2.lx.kaa[k], w2.lx.saa[p].pi[idx], w2.mm))
        ELSE [w2 EXCEPT !.lx.saa[p].lkl = 0]
      Go(w1) ==
        IF w1.rc # "OK" THEN w1
        ELSE Low([w1 EXCEPT !.lx.saa[p].kvblkn = ADDR2BLK(w1.lx.kaa[k].addr),
                            !.lx.saa[p].pnum = @ - 1,
                            !.lx.saa[p].flags = @ \cup {"DURTY"},
                            !.lx.saa[p].pi =
                               [i \in 0 .. KVBLK_IDXNUM - 1 |->
                                  IF i >= idx /\ i < w.lx.saa[p].pnum - 1 THEN @[i + 1] ELSE @[i]]])
  IN Go(kvblk_rmkv(w, k, w.lx.saa[p].pi[idx], {}))

(***************************************************************************)
(* IWLCTX: the lookup context of one put, get or del                       *)
(***************************************************************************)
NullPtrs == [i \in 0 .. SLEVELS - 1 |-> NULL]

\* IWLCTX lx = {.db, .key, .val, .nlvl = -1, .op, .opflags}
NewLx(db, key, val, op, opflags) ==
  [db |-> db, key |-> key, val |-> val, lower |-> NULL, upper |-> NULL, nb |-> NULL,
   dblk |-> NULL, upper_addr |-> 0, saan |-> 0, kaan |-> 0, nlvl |-> -1, op |-> op,
   opflags |-> opflags, sblk_flags |-> {}, plower |-> NullPtrs, pupper |-> NullPtrs,
   saa |-> [i \in 0 .. AANUM - 1 |-> ZeroSblk],
   kaa |-> [i \in 0 .. AANUM - 1 |-> ZeroKvblk]]

\* _lx_sblk_cmp_key; *res comes back in w.res.
lx_sblk_cmp_key(w, p) ==
  LET sblk  == w.lx.saa[p]
      key   == w.lx.key
      dbflg == LxDb(w).dbflg
      Peek(w1, pk) ==
        IF pk.rc # "OK" THEN SetRc(w1, pk.rc)
        ELSE [w1 EXCEPT !.res = cmp_key(dbflg, pk.key, key), !.rc = "OK"]
      Ld(w1) ==
        IF w1.rc # "OK" THEN [w1 EXCEPT !.res = 0]
        ELSE Peek(w1, kvblk_peek_key(w1.lx.kaa[w1.lx.saa[p].kvblk], sblk.pi[0], w1.mm))
  IN IF sblk.pnum < 1 \/ "DB" \in sblk.flags THEN [w EXCEPT !.res = 0, !.rc = "CORRUPTED"]
     ELSE IF "FULL_LKEY" \in sblk.flags \/ Len(key) < sblk.lkl
       THEN [w EXCEPT !.res = cmp_key(dbflg, SubSeq(sblk.lk, 1, sblk.lkl), key), !.rc = "OK"]
     ELSE Ld(sblk_loadkvblk_mm(w, p))

RECURSIVE lx_roll_forward(_, _)
lx_roll_forward(w, lvl) ==
  LET lx      == w.lx
      blkn    == lx.saa[lx.lower].n[lvl]
      blkaddr == BLK2ADDR(blkn)
      pin     == lx.nlvl > -1 /\ lvl < lx.nlvl
      up      == lx.pupper[lvl + 1]
      lo      == lx.plower[lvl + 1]
      Cmp(w2, s) ==
        IF w2.rc # "OK" THEN w2
        ELSE IF w2.res > 0 \/ w2.lx.upper_addr = w2.lx.saa[s].addr
          THEN [w2 EXCEPT !.lx.upper = s]
        ELSE lx_roll_forward([w2 EXCEPT !.lx.lower = s], lvl)
      At(w1) == IF w1.rc # "OK" THEN w1 ELSE Cmp(lx_sblk_cmp_key(w1, w1.ptr), w1.ptr)
  IN IF blkn = 0 THEN SetRc(w, "OK")
     ELSE At(IF pin /\ up # NULL /\ lx.saa[up].addr = blkaddr
               THEN [w EXCEPT !.ptr = up, !.rc = "OK"]
             ELSE IF pin /\ lo # NULL /\ lx.saa[lo].addr = blkaddr
               THEN [w EXCEPT !.ptr = lo, !.rc = "OK"]
             ELSE sblk_at(w, blkaddr, {"LKEY_ONLY"}))

\* do { pin } while (lvl-- && lx->lower->n[lvl] == blkn) of _lx_find_bounds.
RECURSIVE lx_pin(_, _, _)
lx_pin(w, lvl, blkn) ==
  LET Go(w1) ==
        IF lvl # 0 /\ w1.lx.saa[w1.lx.lower].n[lvl - 1] = blkn THEN lx_pin(w1, lvl - 1, blkn)
        ELSE [w |-> w1, lvl |-> lvl - 1]
  IN Go(IF w.lx.nlvl >= lvl
          THEN [w EXCEPT !.lx.plower[lvl] = w.lx.lower, !.lx.pupper[lvl] = w.lx.upper]
          ELSE w)

RECURSIVE lx_find_bounds_loop(_, _)
lx_find_bounds_loop(w, lvl) ==
  LET Pinned(r) == lx_find_bounds_loop(r.w, r.lvl)
      Go(w1) ==
        IF w1.rc # "OK" THEN w1
        ELSE Pinned(lx_pin(w1, lvl,
                           IF w1.lx.upper # NULL THEN ADDR2BLK(w1.lx.saa[w1.lx.upper].addr)
                           ELSE 0))
  IN IF lvl < 0 THEN SetRc(w, "OK") ELSE Go(lx_roll_forward(w, lvl))

lx_find_bounds(w) ==
  LET Start(w3) == lx_find_bounds_loop(w3, w3.lx.saa[w3.lx.lower].lvl)
      Lvl(w2) ==
        Start(IF w2.lx.nlvl > w2.lx.saa[w2.lx.dblk].lvl
                THEN [w2 EXCEPT !.lx.saa[w2.lx.dblk].lvl = w2.lx.nlvl,
                                !.lx.saa[w2.lx.dblk].flags = @ \cup {"DURTY"}]
                ELSE w2)
      Low(w1) ==
        IF w1.rc # "OK" THEN w1
        ELSE Lvl(IF w1.lx.lower = NULL THEN [w1 EXCEPT !.lx.lower = w1.lx.dblk] ELSE w1)
      Dblk(w1) == [w1 EXCEPT !.lx.dblk = w1.ptr]
  IN Low(IF w.lx.dblk = NULL THEN Dblk(sblk_at(w, LxDb(w).addr, {})) ELSE SetRc(w, "OK"))

\* The loop of _lx_release_mm over the pinned nodes.
RECURSIVE lx_release_loop(_, _, _, _, _)
lx_release_loop(w, i, usb, lsb, mm) ==
  LET pu == w.lx.pupper[i]
      pl == w.lx.plower[i]
      Lo(w1) ==
        lx_release_loop(
          IF pl = NULL THEN w1
          ELSE [(IF pl # lsb THEN sblk_sync_and_release_mm(w1, pl, mm) ELSE w1)
                  EXCEPT !.lx.plower[i] = NULL],
          i + 1, IF pu # NULL THEN pu ELSE usb, IF pl # NULL THEN pl ELSE lsb, mm)
  IN IF i > w.lx.nlvl THEN w
     ELSE Lo(IF pu = NULL THEN w
             ELSE [(IF pu # usb THEN sblk_sync_and_release_mm(w, pu, mm) ELSE w)
                     EXCEPT !.lx.pupper[i] = NULL])

\* _lx_release_mm(lx, mm) with mm given or null.  A dirty view of the
\* database header is written even when mm is null (the ghost w.g.segv).
lx_release_mm(w, mm) ==
  LET Dblk(w5) ==
        IF w5.lx.dblk # NULL /\ "DURTY" \in w5.lx.saa[w5.lx.dblk].flags
          THEN (IF mm THEN sblk_sync_mm(w5, w5.lx.dblk) ELSE [w5 EXCEPT !.g.segv = TRUE])
          ELSE w5
      Lower(w4) ==
        Dblk(IF w4.lx.lower # NULL
               THEN [sblk_sync_and_release_mm(w4, w4.lx.lower, mm) EXCEPT !.lx.lower = NULL]
               ELSE w4)
      Upper(w3) ==
        Lower(IF w3.lx.upper # NULL
                THEN [sblk_sync_and_release_mm(w3, w3.lx.upper, mm) EXCEPT !.lx.upper = NULL]
                ELSE w3)
      Pins(w1) ==
        lx_release_loop(
          [w1 EXCEPT !.lx.upper = IF w1.lx.pupper[0] = @ THEN NULL ELSE @,
                     !.lx.lower = IF w1.lx.plower[0] = @ THEN NULL ELSE @],
          0, NULL, NULL, mm)
  IN Upper(IF w.lx.nlvl > -1
             THEN Pins(IF w.lx.nb # NULL
                         THEN [sblk_sync_and_release_mm(w, w.lx.nb, mm) EXCEPT !.lx.nb = NULL]
                         ELSE w)
             ELSE w)

lx_release(w) == SetRc(lx_release_mm(w, TRUE), "OK")

\* _lx_init_chute: the levels without an upper node get the database tail.
lx_init_chute(w) ==
  LET nlvl == w.lx.nlvl
      Go(w1) ==
        IF w1.rc # "OK" THEN w1
        ELSE [w1 EXCEPT !.lx.pupper =
                [i \in 0 .. SLEVELS - 1 |->
                   IF i <= nlvl /\ \A m \in i .. nlvl : w.lx.pupper[m] = NULL
                     THEN w1.ptr ELSE @[i]]]
  IN IF w.lx.pupper[nlvl] = NULL THEN Go(sblk_at(w, 0, {})) ELSE SetRc(w, "OK")

KVBLK_MAX_NKV_SZ == KVBLK_HDRSZ + KVBLK_MAX_IDX_SZ

\* iwlog2_64: the position of the highest set bit.
iwlog2_64(x) == Max({0} \cup {p \in 0 .. 30 : 2 ^ p <= x})

\* The pairs a node view holds (ghost of the split record).
SblkPairs(w, p) ==
  LET sblk == w.lx.saa[p]
      Pair(r) == [key |-> r.key, val |-> r.val]
  IN IF sblk.kvblk = NULL THEN {}
     ELSE {Pair(kvblk_getkv(w.lx.kaa[sblk.kvblk], w.mm, sblk.pi[i])) :
             i \in 0 .. sblk.pnum - 1}

\* lx_split_move without giving up the moved pairs in the lower node: the
\* slot of the pair stays in use and pnum is not decremented.
RECURSIVE lx_split_move_keep(_, _, _, _, _, _)
lx_split_move_keep(w, p, nb, pivot, i, end) ==
  LET sblk == w.lx.saa[p]
      slot == sblk.pi[i]
      Got(r) == IF r.rc # "OK" THEN <<>> ELSE r.key
      Val(r) == IF r.rc # "OK" THEN <<>> ELSE r.val
  IN IF i >= end \/ w.rc # "OK" THEN w
     ELSE IF kvblk_getkv(w.lx.kaa[sblk.kvblk], w.mm, slot).rc # "OK"
       THEN SetRc(w, kvblk_getkv(w.lx.kaa[sblk.kvblk], w.mm, slot).rc)
     ELSE lx_split_move_keep(
            sblk_addkv2(w, nb, i - pivot,
                        Got(kvblk_getkv(w.lx.kaa[sblk.kvblk], w.mm, slot)),
                        Val(kvblk_getkv(w.lx.kaa[sblk.kvblk], w.mm, slot)),
                        w.lx.opflags, TRUE),
            p, nb, pivot, i + 1, end)

\* The loop of _lx_split_addkv that moves the pairs from pivot on into nb;
\* it stops at the first failure, which stays in w.rc.
RECURSIVE lx_split_move(_, _, _, _, _, _)
lx_split_move(w, p, nb, pivot, i, end) ==
  LET sblk == w.lx.saa[p]
      slot == sblk.pi[i]
      Got(r) == IF r.rc # "OK" THEN <<>> ELSE r.key
      Val(r) == IF r.rc # "OK" THEN <<>> ELSE r.val
      Moved(w1) ==
        IF w1.rc # "OK" THEN w1
        ELSE [w1 EXCEPT !.lx.kaa[sblk.kvblk].pidx[slot].len = 0,
                        !.lx.kaa[sblk.kvblk].pidx[slot].off = 0,
                        !.lx.saa[p].pnum = @ - 1]
  IN IF i >= end \/ w.rc # "OK" THEN w
     ELSE IF kvblk_getkv(w.lx.kaa[sblk.kvblk], w.mm, slot).rc # "OK"
       THEN SetRc(w, kvblk_getkv(w.lx.kaa[sblk.kvblk], w.mm, slot).rc)
     ELSE lx_split_move(
            Moved(sblk_addkv2(w, nb, i - pivot,
                              Got(kvblk_getkv(w.lx.kaa[sblk.kvblk], w.mm, slot)),
                              Val(kvblk_getkv(w.lx.kaa[sblk.kvblk], w.mm, slot)),
                              w.lx.opflags, TRUE)),
            p, nb, pivot, i + 1, end)

\* lx_fix_levels with plower and pupper mixed up for the new node's own
\* pointer: n[i] of nb names the node before it.
RECURSIVE lx_fix_levels_back(_, _, _, _)
lx_fix_levels_back(w, nb, nblk, i) ==
  IF i > w.lx.saa[nb].lvl THEN w
  ELSE lx_fix_levels_back(
         [w EXCEPT !.lx.saa[w.lx.plower[i]].n[i] = nblk,
                   !.lx.saa[w.lx.plower[i]].flags = @ \cup {"DURTY"},
                   !.lx.saa[nb].n[i] = ADDR2BLK(w.lx.saa[w.lx.plower[i]].addr)],
         nb, nblk, i + 1)

\* "fix levels" left out: nb is linked to no node.
lx_fix_levels_none(w, nb, nblk, i) == w

\* "fix levels" of _lx_split_addkv: nb goes between plower[i] and pupper[i].
RECURSIVE lx_fix_levels(_, _, _, _)
lx_fix_levels(w, nb, nblk, i) ==
  IF i > w.lx.saa[nb].lvl THEN w
  ELSE lx_fix_levels(
         [w EXCEPT !.lx.saa[w.lx.plower[i]].n[i] = nblk,
                   !.lx.saa[w.lx.plower[i]].flags = @ \cup {"DURTY"},
                   !.lx.saa[nb].n[i] = ADDR2BLK(w.lx.saa[w.lx.pupper[i]].addr)],
         nb, nblk, i + 1)

\* _lx_split_addkv after _sblk_create: w1 holds the new node nb, sblk is
\* the view of the full node as it was and pre are the pairs it held.  The
\* ghost w.g.split records the split that succeeded (ins is the new pair
\* as the file holds it: in a database with DUP flags the value is the
\* array [count = 1, value]), w.g.failed the one that failed.
lx_split_fill(w1, sblk, pre, idx, p) ==
  LET key   == w1.lx.key
      val   == w1.lx.val
      pivot == KVBLK_IDXNUM \div 2 + 1
      nb    == w1.ptr
      nblk  == ADDR2BLK(w1.lx.saa[nb].addr)
      Finish(w9) ==
        IF w9.rc # "OK"
          THEN SetRc(sblk_destroy([w9 EXCEPT !.lx.nb = NULL,
                                             !.g.failed = [on |-> TRUE, lower |-> sblk.addr,
                                                           nb |-> w9.lx.saa[nb].addr,
                                                           kvb |-> BLK2ADDR(w9.lx.saa[nb].kvblkn),
                                                           pre |-> pre, idx |-> idx,
                                                           rc |-> w9.rc]],
                                  nb),
                     w9.rc)
        ELSE [w9 EXCEPT !.lx.nb = nb,
                        !.g.split = [on |-> TRUE, node |-> "DB" \notin sblk.flags,
                                     lower |-> sblk.addr, nb |-> w9.lx.saa[nb].addr,
                                     pre |-> pre,
                                     ins |-> [key |-> key,
                                              val |-> IF LxDb(w9).dbflg \cap IWDB_DUP_FLAGS # {}
                                                        THEN U32Le(1) \o val ELSE val],
                                     idx |-> idx, lvl |-> w9.lx.saa[nb].lvl,
                                     plower |-> [i \in 0 .. w9.lx.saa[nb].lvl |->
                                                   w9.lx.saa[w9.lx.plower[i]].addr],
                                     pupper |-> [i \in 0 .. w9.lx.saa[nb].lvl |->
                                                   w9.lx.saa[w9.lx.pupper[i]].addr]]]
      Fix(w7) ==
        IF w7.rc # "OK" THEN w7
        ELSE lx_fix_levels(
               [w7 EXCEPT !.lx.saa[w7.lx.pupper[0]].p0 = nblk,
                          !.lx.saa[w7.lx.pupper[0]].flags = @ \cup {"DURTY"},
                          !.lx.saa[nb].p0 = ADDR2BLK(w7.lx.saa[w7.lx.plower[0]].addr)],
               nb, nblk, 0)
      \* The statements after the loop run whether or not the loop broke; the
      \* result of the loop is overwritten by that of _sblk_addkv.
      Rest(w5) ==
        [w5 EXCEPT !.lx.kaa[sblk.kvblk].flags = @ \cup {"DURTY"},
                   !.lx.kaa[sblk.kvblk].zidx = w5.lx.saa[p].pi[pivot],
                   !.lx.kaa[sblk.kvblk].maxoff =
                      Max({0} \cup {w5.lx.kaa[sblk.kvblk].pidx[i].off :
                                      i \in 0 .. KVBLK_IDXNUM - 1}),
                   !.rc = "OK"]
  IN IF w1.rc # "OK" THEN w1
     ELSE Finish(Fix(sblk_addkv(IF idx = sblk.pnum THEN w1
                                ELSE Rest(lx_split_move(w1, p, nb, pivot, pivot, sblk.pnum)),
                                IF idx = sblk.pnum \/ idx > pivot THEN nb ELSE p,
                                key, val, w1.lx.opflags, FALSE)))

\* _lx_split_addkv: the size of the new node, then _sblk_create.
lx_split_addkv(w, idx, p) ==
  LET sblk  == w.lx.saa[p]
      pivot == KVBLK_IDXNUM \div 2 + 1
      sz    == SumFn([i \in 0 .. sblk.pnum - 1 |->
                        IF i >= pivot THEN w.lx.kaa[sblk.kvblk].pidx[sblk.pi[i]].len ELSE 0],
                     sblk.pnum - 1)
               + (IF idx > pivot
                    THEN IW_VNUMSIZE(Len(w.lx.key)) + Len(w.lx.key) + Len(w.lx.val) ELSE 0)
               + KVBLK_MAX_NKV_SZ
      kvbpow == IF idx < sblk.pnum
                  THEN Min({q \in iwlog2_64(sz) .. 30 : 2 ^ q >= sz}) ELSE 0
  IN lx_split_fill(sblk_create(w, w.lx.nlvl, kvbpow, sblk.addr),
                   sblk, SblkPairs(w, p), idx, p)

\* _lx_addkv up to the release of the mmap, with a key that is found
\* treated alike under every operation flag.
lx_addkv_find_any(w) ==
  LET p   == w.lx.lower
      key == w.lx.key
      Uadd(w3) ==
        /\ ~w3.found
        /\ w3.lx.saa[p].pnum > KVBLK_IDXNUM - 1
        /\ w3.idx > KVBLK_IDXNUM - 1
        /\ w3.lx.upper # NULL
        /\ w3.lx.saa[w3.lx.upper].pnum < KVBLK_IDXNUM
      Found(w3) ==
        IF w3.rc # "OK" THEN w3
        ELSE IF Uadd(w3) THEN sblk_loadkvblk_mm(w3, w3.lx.upper)
        ELSE w3
      Loaded(w2) == IF w2.rc # "OK" THEN w2 ELSE Found(sblk_find_pi_mm(w2, p, key))
      Chute(w1) == IF w1.rc # "OK" THEN w1 ELSE Loaded(sblk_loadkvblk_mm(w1, p))
  IN IF w.rc # "OK" THEN w
     ELSE Chute(IF w.lx.nlvl > -1 THEN lx_init_chute(w) ELSE SetRc(w, "OK"))

\* _lx_addkv up to the release of the mmap: the chute, the key/value block
\* of lower, the position of the key and, for an append to upper, its block.
lx_addkv_find(w) ==
  LET p   == w.lx.lower
      key == w.lx.key
      Uadd(w3) ==
        /\ ~w3.found
        /\ w3.lx.saa[p].pnum > KVBLK_IDXNUM - 1
        /\ w3.idx > KVBLK_IDXNUM - 1
        /\ w3.lx.upper # NULL
        /\ w3.lx.saa[w3.lx.upper].pnum < KVBLK_IDXNUM
      Found(w3) ==
        IF w3.rc # "OK" THEN w3
        ELSE IF w3.found /\ "NO_OVERWRITE" \in w.lx.opflags THEN SetRc(w3, "KEY_EXISTS")
        ELSE IF Uadd(w3) THEN sblk_loadkvblk_mm(w3, w3.lx.upper)
        ELSE w3
      Loaded(w2) == IF w2.rc # "OK" THEN w2 ELSE Found(sblk_find_pi_mm(w2, p, key))
      Chute(w1) == IF w1.rc # "OK" THEN w1 ELSE Loaded(sblk_loadkvblk_mm(w1, p))
  IN IF w.rc # "OK" THEN w
     ELSE Chute(IF w.lx.nlvl > -1 THEN lx_init_chute(w) ELSE SetRc(w, "OK"))

\* _lx_addkv from the release of the mmap on; w.found and w.idx are what
\* _sblk_find_pi_mm gave.
lx_addkv_put(w) ==
  LET p       == w.lx.lower
      key     == w.lx.key
      val     == w.lx.val
      opflags == w.lx.opflags
      full    == ~w.found /\ w.lx.saa[p].pnum > KVBLK_IDXNUM - 1
      uadd    == /\ full
                 /\ w.idx > KVBLK_IDXNUM - 1
                 /\ w.lx.upper # NULL
                 /\ w.lx.saa[w.lx.upper].pnum < KVBLK_IDXNUM
  IN IF w.rc # "OK" THEN w
     ELSE IF full /\ uadd THEN sblk_addkv(w, w.lx.upper, key, val, opflags, FALSE)
     ELSE IF full /\ w.lx.nlvl < 0 THEN SetRc(w, "REQUIRE_NLEVEL")
     ELSE IF ~w.found /\ w.lx.saa[p].pnum >= KVBLK_IDXNUM THEN lx_split_addkv(w, w.idx, p)
     ELSE IF ~w.found THEN sblk_addkv2(w, p, w.idx, key, val, opflags, FALSE)
     ELSE sblk_updatekv(w, p, w.idx, key, val, opflags)

\* _lx_addkv; a failure of _lx_find_bounds comes in as w.rc and is returned.
lx_addkv(w) == lx_addkv_put(lx_addkv_find(w))

\* _lx_put_lw without the retry: what _lx_addkv returned goes to the caller.
lx_put_lw_once(w) ==
  LET Added(w2) == IF w2.rc = "OK" THEN lx_release(w2) ELSE lx_release_mm(w2, FALSE)
  IN Added(lx_addkv(lx_find_bounds(w)))

\* _lx_put_lw; the level of a new node is drawn from w.rnd (the ghost
\* w.g.drew tells that the draw was used).  _lx_find_bounds fails with
\* IWKV_ERROR_CORRUPTED only, so its failure takes the same way out as a
\* failure of _lx_addkv.
RECURSIVE lx_put_lw(_)
lx_put_lw(w) ==
  LET Retry(w4, lower) ==
        [w4 EXCEPT !.g.drew = TRUE,
                   !.lx.nlvl = sblk_genlevel(LxDb(w4), w4.rnd),
                   !.lx.lower =
                     IF w4.lx.saa[lower].lvl >= sblk_genlevel(LxDb(w4), w4.rnd)
                       THEN lower ELSE @]
      Added(w2) ==
        IF w2.rc = "OK" THEN lx_release(w2)
        ELSE IF w2.rc = "REQUIRE_NLEVEL"
          THEN Retry(lx_release_mm(w2, FALSE), w2.lx.lower)
        ELSE lx_release_mm(IF w2.rc = "KVBLOCK_FULL" THEN SetRc(w2, "CORRUPTED") ELSE w2,
                           FALSE)
      Again(w5) == IF w5.rc = "REQUIRE_NLEVEL" THEN lx_put_lw(SetRc(w5, "OK")) ELSE w5
  IN Again(Added(lx_addkv(lx_find_bounds(w))))

\* _lx_get_lr; the value comes back in w.val.
lx_get_lr(w) ==
  LET Val(w3, r) == [w3 EXCEPT !.rc = r.rc, !.val = IF r.rc = "OK" THEN r.val ELSE @]
      Found(w3) ==
        IF w3.rc # "OK" THEN w3
        ELSE IF w3.found
          THEN Val(w3, kvblk_getkv(w3.lx.kaa[w3.lx.saa[w3.lx.lower].kvblk], w3.mm,
                                   w3.lx.saa[w3.lx.lower].pi[w3.idx]))
        ELSE SetRc(w3, "NOTFOUND")
      Loaded(w2) ==
        IF w2.rc # "OK" THEN w2 ELSE Found(sblk_find_pi_mm(w2, w2.lx.lower, w2.lx.key))
      Bounds(w1) ==
        IF w1.rc # "OK" THEN w1
        ELSE lx_release_mm(Loaded(sblk_loadkvblk_mm([w1 EXCEPT !.val = <<>>], w1.lx.lower)),
                           FALSE)
  IN Bounds(lx_find_bounds(w))

\* The unlink loop of _lx_del_lw left out.
lx_del_unlink_none(w, i) == w

\* The loop of _lx_del_lw that takes the node lx->upper out of the lists.
RECURSIVE lx_del_unlink(_, _)
lx_del_unlink(w, i) ==
  LET lo == w.lx.plower[i]
      up == w.lx.upper
      n  == w.lx.saa[up].n[i]
  IN IF i > w.lx.nlvl THEN w
     ELSE lx_del_unlink(
            [w EXCEPT !.lx.saa[lo].n[i] = n,
                      !.lx.saa[lo].flags = @ \cup {"DURTY"},
                      !.lx.saa[lo].lvl =
                         IF "DB" \in w.lx.saa[lo].flags /\ n = 0 THEN (@ + 255) % 256 ELSE @,
                      !.lx.pupper[i] = IF @ = up THEN NULL ELSE @],
            i + 1)

\* The label finish of _lx_del_lw: a failure releases the context without
\* writing it, a success writes it.
lx_del_finish(w) == IF w.rc # "OK" THEN lx_release_mm(w, FALSE) ELSE lx_release(w)

\* _lx_del_lw once the key is found at w.idx in the node that holds nothing
\* else: w is the context after the second _lx_find_bounds.
lx_del_last(w, kvblk, idx) ==
  LET Destroy(w8) ==
        IF w8.rc # "OK" THEN w8
        ELSE [sblk_destroy([w8 EXCEPT !.lx.nb = w8.ptr,
                                      !.lx.saa[w8.ptr].p0 = w8.lx.saa[w8.lx.upper].p0,
                                      !.lx.saa[w8.ptr].flags = @ \cup {"DURTY"}],
                           w8.lx.upper)
                EXCEPT !.lx.upper = NULL]
      At(w6) ==
        IF w6.rc # "OK" THEN w6
        ELSE sblk_at(lx_del_unlink(w6, 0), BLK2ADDR(w6.lx.saa[w6.lx.upper].n[0]), {})
  IN IF w.rc # "OK" THEN w
     ELSE lx_del_finish(
            Destroy(At(sblk_rmkv([w EXCEPT !.lx.saa[w.lx.upper].kvblk = kvblk],
                                 w.lx.upper, idx))))

\* _lx_del_lw after _sblk_find_pi_mm (w.found, w.idx).
lx_del_found(w) ==
  LET p == w.lx.lower
  IN IF w.rc # "OK" THEN lx_release_mm(w, FALSE)
     ELSE IF ~w.found THEN lx_release_mm(SetRc(w, "NOTFOUND"), FALSE)
     ELSE IF w.lx.saa[p].pnum = 1
       THEN lx_del_last(lx_find_bounds([lx_release_mm(w, FALSE) EXCEPT
                                          !.lx.nlvl = w.lx.saa[p].lvl,
                                          !.lx.upper_addr = w.lx.saa[p].addr]),
                        w.lx.saa[p].kvblk, w.idx)
     ELSE lx_del_finish(sblk_rmkv(w, p, w.idx))

\* _lx_del_lw after the first _lx_find_bounds, whose failure is returned
\* as it is.
lx_del_load(w) ==
  LET Loaded(w2) == IF w2.rc # "OK" THEN w2 ELSE sblk_find_pi_mm(w2, w2.lx.lower, w2.lx.key)
  IN IF w.rc # "OK" THEN w
     ELSE lx_del_found(Loaded(sblk_loadkvblk_mm(w, w.lx.lower)))

lx_del_lw(w) == lx_del_load(lx_find_bounds(w))

(***************************************************************************)
(* Cursor.  w.cur is the IWKV_cursor (cn, dbaddr, cnpos, closed); its      *)
(* lookup context is w.lx.  A null key is the empty sequence.              *)
(***************************************************************************)
sblk_sync_and_release(w, p) ==
  LET sblk == w.lx.saa[p]
  IN IF "DURTY" \in sblk.flags
        \/ (sblk.kvblk # NULL /\ "DURTY" \in w.lx.kaa[sblk.kvblk].flags)
       THEN SetRc(sblk_release(sblk_sync_mm(w, p), p), "OK")
     ELSE SetRc(sblk_release(w, p), "OK")

SetCn(w) == [w EXCEPT !.cur.cn = w.ptr]

cursor_get_ge_idx(w, op) ==
  LET Found(w3) ==
        IF w3.rc # "OK" \/ w3.found THEN w3
        ELSE IF op = "EQ" \/ "DB" \in w3.lx.saa[w3.lx.lower].flags
                \/ w3.lx.saa[w3.lx.lower].pnum < 1
          THEN SetRc(w3, "NOTFOUND")
        ELSE [w3 EXCEPT !.idx = IF @ # 0 THEN @ - 1 ELSE @]
      Loaded(w2) ==
        IF w2.rc # "OK" THEN w2 ELSE Found(sblk_find_pi_mm(w2, w2.lx.lower, w2.lx.key))
      Bounds(w1) ==
        IF w1.rc # "OK" THEN w1 ELSE Loaded(sblk_loadkvblk_mm(w1, w1.lx.lower))
  IN Bounds(lx_find_bounds(w))

RECURSIVE cursor_to_lr(_, _)
cursor_to_lr(w, op) ==
  LET dblk == ADDR2BLK(LxDb(w).addr)
      Finish(w9) ==
        IF w9.rc \notin {"OK", "NOTFOUND"} /\ w9.cur.cn # NULL
          THEN [sblk_release(w9, w9.cur.cn) EXCEPT !.cur.cn = NULL]
        ELSE w9
      Reset(w1) ==
        IF w1.rc # "OK" THEN w1
        ELSE IF op = "BEFORE_FIRST"
          THEN [w1 EXCEPT !.cur.dbaddr = LxDb(w).addr, !.cur.cnpos = KVBLK_IDXNUM - 1]
        ELSE [w1 EXCEPT !.cur.dbaddr = -1, !.cur.cnpos = 0]
      Arrived(w3) ==
        IF w3.rc # "OK" THEN w3
        ELSE IF op = "NEXT"
          THEN (IF w3.lx.saa[w3.cur.cn].pnum = 0
                  THEN cursor_to_lr([w3 EXCEPT !.cur.cnpos = 0], op)
                ELSE [w3 EXCEPT !.cur.cnpos = 0])
        ELSE (IF w3.lx.saa[w3.cur.cn].pnum # 0
                THEN [w3 EXCEPT !.cur.cnpos = w3.lx.saa[w3.cur.cn].pnum - 1]
              ELSE cursor_to_lr(w3, op))
      Move(w2, n) ==
        Arrived(SetCn(sblk_at([sblk_sync_and_release(w2, w2.cur.cn) EXCEPT !.cur.cn = NULL],
                              BLK2ADDR(n), {})))
      Step(w1, cn, edge, n) ==
        IF edge
          THEN (IF n = 0 \/ (op = "PREV" /\ n = dblk) THEN SetRc(w1, "NOTFOUND")
                ELSE Move(w1, n))
        ELSE IF "DB" \in cn.flags THEN SetRc(w1, "INVALID_STATE")
        ELSE [w1 EXCEPT !.cur.cnpos = IF op = "NEXT" THEN @ + 1 ELSE @ - 1]
      Enter(w1) ==
        IF w1.rc # "OK" THEN w1
        ELSE Step(w1, w1.lx.saa[w1.cur.cn],
                  IF op = "NEXT" THEN w1.cur.cnpos + 1 >= w1.lx.saa[w1.cur.cn].pnum
                  ELSE w1.cur.cnpos = 0,
                  IF op = "NEXT" THEN w1.lx.saa[w1.cur.cn].n[0] ELSE w1.lx.saa[w1.cur.cn].p0)
      First(w1) == [SetCn(w1) EXCEPT !.cur.dbaddr = 0]
      Ge(w1) ==
        [w1 EXCEPT !.lx.upper = NULL,
                   !.lx.saa = IF w1.lx.upper # NULL
                                THEN [@ EXCEPT ![w1.lx.upper].kvblk = NULL] ELSE @,
                   !.cur.cnpos = IF w1.rc = "OK" THEN w1.idx ELSE @,
                   !.cur.cn = IF w1.rc = "OK" THEN w1.lx.lower ELSE @,
                   !.lx.lower = IF w1.rc = "OK" THEN NULL ELSE @]
  IN IF op \in {"BEFORE_FIRST", "AFTER_LAST"}
       THEN Reset(IF w.cur.cn # NULL
                    THEN [sblk_sync_and_release(w, w.cur.cn) EXCEPT !.cur.cn = NULL]
                  ELSE SetRc(w, "OK"))
     ELSE IF op \in {"NEXT", "PREV"}
       THEN Finish(Enter(IF w.cur.cn # NULL THEN SetRc(w, "OK")
                         ELSE IF w.cur.dbaddr # 0
                           THEN First(sblk_at(w, IF w.cur.dbaddr < 0 THEN 0 ELSE w.cur.dbaddr,
                                              {}))
                         ELSE SetRc(w, "INVALID_STATE")))
     ELSE Finish(IF w.lx.key = <<>> THEN SetRc(w, "INVALID_STATE")
                 ELSE Ge(cursor_get_ge_idx(w, op)))

cursor_close_lw(w) ==
  LET cn == w.cur.cn
      Closed(w1) == [w1 EXCEPT !.cur.closed = TRUE, !.cur.cn = NULL, !.rc = "OK"]
  IN IF cn = NULL THEN Closed(w)
     ELSE IF "DURTY" \in w.lx.saa[cn].flags
             \/ (w.lx.saa[cn].kvblk # NULL /\ "DURTY" \in w.lx.kaa[w.lx.saa[cn].kvblk].flags)
       THEN Closed(sblk_sync_and_release_mm(w, cn, TRUE))
     ELSE Closed(sblk_release(w, cn))

\* iwkv_cursor_open on database db of the list w.dbs.
iwkv_cursor_open(w, db, op, key) ==
  LET Opened(w1) == IF w1.rc # "OK" THEN SetRc(cursor_close_lw(w1), w1.rc) ELSE w1
  IN IF (key # <<>> /\ op \in {"BEFORE_FIRST", "AFTER_LAST", "NEXT", "PREV"})
       THEN SetRc(w, "INVALID_ARGS")
     ELSE Opened(cursor_to_lr(
                   [w EXCEPT !.lx = NewLx(db, key, <<>>, "NONE", {}),
                             !.cur = [cn |-> NULL, dbaddr |-> 0, cnpos |-> 0,
                                      closed |-> FALSE]],
                   op))

iwkv_cursor_close(w) == IF w.cur.closed THEN SetRc(w, "OK") ELSE cursor_close_lw(w)

iwkv_cursor_to(w, op) == cursor_to_lr(w, op)

\* iwkv_cursor_to_key
iwkv_cursor_to_key(w, op, key) ==
  IF op \notin {"EQ", "GE"} THEN SetRc(w, "INVALID_ARGS")
  ELSE cursor_to_lr([w EXCEPT !.lx.key = key], op)

\* iwkv_cursor_get reading slot cnpos of the key/value block instead of the
\* slot pi[cnpos] names.
iwkv_cursor_get_slot(w) ==
  LET cn == w.cur.cn
      Pair(w1, r) ==
        [w1 EXCEPT !.rc = r.rc, !.key = IF r.rc = "OK" THEN r.key ELSE @,
                   !.val = IF r.rc = "OK" THEN r.val ELSE @]
      Get(w1) ==
        IF w1.rc # "OK" THEN w1
        ELSE Pair(w1, kvblk_getkv(w1.lx.kaa[w1.lx.saa[cn].kvblk], w1.mm, w1.cur.cnpos))
  IN IF cn = NULL THEN SetRc(w, "INVALID_STATE")
     ELSE IF w.cur.cnpos >= w.lx.saa[cn].pnum THEN SetRc(w, "INVALID_STATE")
     ELSE Get(IF w.lx.saa[cn].kvblk = NULL THEN sblk_loadkvblk_mm(w, cn) ELSE SetRc(w, "OK"))

\* iwkv_cursor_get with okey and oval given: they come back in w.key, w.val.
iwkv_cursor_get(w) ==
  LET cn == w.cur.cn
      Pair(w1, r) ==
        [w1 EXCEPT !.rc = r.rc, !.key = IF r.rc = "OK" THEN r.key ELSE @,
                   !.val = IF r.rc = "OK" THEN r.val ELSE @]
      Get(w1) ==
        IF w1.rc # "OK" THEN w1
        ELSE Pair(w1, kvblk_getkv(w1.lx.kaa[w1.lx.saa[cn].kvblk], w1.mm,
                                  w1.lx.saa[cn].pi[w1.cur.cnpos]))
  IN IF cn = NULL THEN SetRc(w, "INVALID_STATE")
     ELSE IF w.cur.cnpos >= w.lx.saa[cn].pnum THEN SetRc(w, "INVALID_STATE")
     ELSE Get(IF w.lx.saa[cn].kvblk = NULL THEN sblk_loadkvblk_mm(w, cn) ELSE SetRc(w, "OK"))

(***************************************************************************)
(* Databases, open and close                                               *)
(***************************************************************************)
IWKV_MAGIC == 1769433974

\* _db_at: the IWDB read from the header at addr; a block that holds no
\* database header does not start with IWDB_MAGIC.
db_at(mm, addr) ==
  LET b == MmAt(mm, addr)
  IN IF b.t # "db" THEN [rc |-> "CORRUPTED", db |-> <<>>]
     ELSE [rc |-> "OK",
           db |-> [addr |-> addr, flags |-> {"DB"}, dbflg |-> b.dbflg, id |-> b.id,
                   next_db_addr |-> BLK2ADDR(b.next), lcnt |-> b.c, open |-> TRUE]]

\* _db_save of the i-th database of the list: magic, dbflg, id and the
\* block of the next database; the rest of the header is left as it is.
db_save(w, i) ==
  LET db   == w.dbs[i]
      next == IF i < Len(w.dbs) THEN w.dbs[i + 1].addr ELSE 0
  IN [w EXCEPT !.dbs[i].next_db_addr = next,
               !.mm = MmPut(@, db.addr,
                            [MmDb(w.mm, db.addr) EXCEPT !.t = "db", !.dbflg = db.dbflg,
                                                        !.id = db.id,
                                                        !.next = ADDR2BLK(next)])]

\* db_load_chain that stops after the first database of the chain.
db_load_chain_first(w, addr) ==
  LET Go(r) ==
        IF r.rc # "OK" THEN SetRc(w, r.rc)
        ELSE [w EXCEPT !.dbs = Append(@, r.db), !.rc = "OK"]
  IN IF addr = 0 THEN SetRc(w, "OK") ELSE Go(db_at(w.mm, addr))

RECURSIVE db_load_chain(_, _)
db_load_chain(w, addr) ==
  LET Go(r) ==
        IF r.rc # "OK" THEN SetRc(w, r.rc)
        ELSE IF r.db.next_db_addr # 0
          THEN db_load_chain([w EXCEPT !.dbs = Append(@, r.db)], r.db.next_db_addr)
        ELSE [w EXCEPT !.dbs = Append(@, r.db), !.rc = "OK"]
  IN IF addr = 0 THEN SetRc(w, "OK") ELSE Go(db_at(w.mm, addr))

\* _db_create_lw; the new database is the last of w.dbs.
db_create_lw(w, dbid, dbflg) ==
  LET Saved(w2) ==
        [(IF Len(w2.dbs) > 1 THEN db_save(w2, Len(w2.dbs) - 1) ELSE w2)
           EXCEPT !.dbs[Len(w2.dbs)].open = TRUE, !.idx = Len(w2.dbs), !.rc = "OK"]
      Go(a) ==
        IF a.rc # "OK" THEN [w EXCEPT !.fsm = a.f, !.rc = a.rc]
        ELSE Saved(db_save(
               [w EXCEPT !.fsm = a.f,
                         !.dbs = Append(@, [addr |-> a.addr, flags |-> {}, dbflg |-> dbflg,
                                            id |-> dbid, next_db_addr |-> 0,
                                            lcnt |-> ZeroN, open |-> FALSE]),
                         !.hdr.first_db = IF w.dbs = <<>> THEN a.addr ELSE @,
                         !.g.nodes = Append(@, {})],
               Len(w.dbs) + 1))
  IN Go(fsm_allocate(w.fsm, DB_SZ, 0, KvAllocOpts))

\* iwkv_db handing out the database of the id whatever its flags are.
iwkv_db_any(w, dbid, dbflg) ==
  LET have == {i \in 1 .. Len(w.dbs) : w.dbs[i].id = dbid}
  IN IF have # {} THEN [w EXCEPT !.idx = Max(have), !.rc = "OK"]
     ELSE IF "RDONLY" \in w.oflags THEN SetRc(w, "READONLY")
     ELSE db_create_lw(w, dbid, dbflg)

\* iwkv_db: the position of the database in w.dbs comes back in w.idx.
iwkv_db(w, dbid, dbflg) ==
  LET have == {i \in 1 .. Len(w.dbs) : w.dbs[i].id = dbid}
      Go(i) == IF w.dbs[i].dbflg # dbflg THEN SetRc(w, "INCOMPATIBLE_DB_MODE")
               ELSE [w EXCEPT !.idx = i, !.rc = "OK"]
  IN IF have # {} THEN Go(Max(have))
     ELSE IF "RDONLY" \in w.oflags THEN SetRc(w, "READONLY")
     ELSE db_create_lw(w, dbid, dbflg)

\* The maximal runs of clear bits of the bitmap, as extents of blocks.
MaxClearRuns(bm, bnum) ==
  {FSMBK(s, FreeRunEnd(bm, bnum, s) - s) : s \in FreeRunStarts(bm, bnum)}

\* After a reopen the free-space tree holds exactly the maximal runs of
\* clear bits of the bitmap, one extent per run.
C31_ExactRuns ==
  flast.op = "reopen" => fsm.tree = MaxClearRuns(fsm.bm, fsm.bmlen * 8)

\* C31: the tree rebuilt from the bitmap on reopen holds exactly the maximal
\* runs of clear bits, and so equals the tree that allocate and deallocate
\* had maintained up to the close, as the tail trimming of close left it.
C31_SameAsBefore ==
  flast.op = "reopen" => fsm.tree = flast.treec

\* C33: extents handed out by allocate (plain or page-aligned) and not
\* given back never share a byte with one another, with the header or with
\* the bitmap.
C33_LiveDisjoint ==
  /\ \A e1, e2 \in live :
       e1 # e2 => (e1.addr + e1.len <= e2.addr \/ e2.addr + e2.len <= e1.addr)
  /\ \A e \in live :
       /\ e.addr >= fsm.hdrlen
       /\ (e.addr + e.len <= fsm.bmoff \/ fsm.bmoff + fsm.bmlen <= e.addr)

\* C39: on a file opened with STRICT, a call that fails with SEGMENTATION
\* in the bit-status change has flipped no bit of the bitmap.
C39_SegmentationNoFlip ==
  (flast.op \in {"allocate", "deallocate"} /\ "STRICT" \in fsm.oflags
     /\ flast.rc = "SEGMENTATION")
    => fsm.bm = flast.bm0

\* The file image cut off at block lastblk.
MmTruncate(mm, lastblk) ==
  IF lastblk < 0 THEN mm
  ELSE [a \in {x \in DOMAIN mm : x < BLK2ADDR(lastblk)} |-> mm[a]]

\* iwkv_put without regard to the mode the store was opened in.
iwkv_put_rw(w, db, key, val, opflags) ==
  IF Len(key) = 0 THEN SetRc(w, "INVALID_ARGS")
  ELSE IF ("UINT32_KEYS" \in w.dbs[db].dbflg /\ Len(key) # 4)
          \/ ("UINT64_KEYS" \in w.dbs[db].dbflg /\ Len(key) # 8)
    THEN SetRc(w, "KEY_NUM_VALUE_SIZE")
  ELSE lx_put_lw([w EXCEPT !.lx = NewLx(db, key, val, "PUT", opflags)])

\* iwkv_put, iwkv_get, iwkv_del on the db-th database of w.dbs.
iwkv_put(w, db, key, val, opflags) ==
  IF Len(key) = 0 THEN SetRc(w, "INVALID_ARGS")
  ELSE IF "RDONLY" \in w.oflags THEN SetRc(w, "READONLY")
  ELSE IF ("UINT32_KEYS" \in w.dbs[db].dbflg /\ Len(key) # 4)
          \/ ("UINT64_KEYS" \in w.dbs[db].dbflg /\ Len(key) # 8)
    THEN SetRc(w, "KEY_NUM_VALUE_SIZE")
  ELSE lx_put_lw([w EXCEPT !.lx = NewLx(db, key, val, "PUT", opflags)])

iwkv_get(w, db, key) ==
  lx_get_lr([w EXCEPT !.lx = NewLx(db, key, <<>>, "NONE", {}), !.val = <<>>])

iwkv_del(w, db, key) ==
  lx_del_lw([w EXCEPT !.lx = NewLx(db, key, <<>>, "DEL", {})])

(***************************************************************************)
(* The store as a state machine (Spec)                                     *)
(***************************************************************************)
\* Exploration bounds: databases, the keys that fill the first node of
\* database 1, the keys and values of the operations that follow, the
\* outcomes of the level draw, and the number of operations and reopens.
NumDb == 2

FillLen == KVBLK_IDXNUM

MaxOps == 2

MaxOpsEmpty == 3

MaxReopen == 1

MaxDraw == 1

MaxScan == 40

MaxOpsFlags == 3

MaxOpsGap == 1

MaxOpsDup == 2

MaxOpsDupFill == 1

FillKeys == [i \in 1 .. FillLen |-> <<2 * i>>]

FillVal == <<7>>

\* A scripted call: a put of FillVal without flags under a level draw of r,
\* a del, and a put of the uint32_t number n.
ScriptPut(key, r) == [op |-> "put", key |-> key, r |-> r, val |-> FillVal, flags |-> {}]

ScriptDel(key) == [op |-> "del", key |-> key, r |-> 0, val |-> <<>>, flags |-> {}]

ScriptAdd(key, n) ==
  [op |-> "put", key |-> key, r |-> 0, val |-> <<n, 0, 0, 0>>, flags |-> {}]

\* The calls that fill the first node of database 1.
FillScript == [i \in 1 .. FillLen |-> ScriptPut(FillKeys[i], 0)]

\* The numbers 5, 2, 5 and 9 added under one key of a database created
\* with DUP_UINT32_VALS.
DupScript ==
  <<ScriptAdd(<<9>>, 5), ScriptAdd(<<9>>, 2), ScriptAdd(<<9>>, 5), ScriptAdd(<<9>>, 9)>>

\* The calls that fill the first node of database 1 created with
\* DUP_UINT32_VALS: the number 7 is added under each key of the fill.
DupFillScript == [i \in 1 .. FillLen |-> ScriptAdd(FillKeys[i], 7)]

\* The calls that leave database 1 with a node of level 1 and no node of
\* level 0, and then create a node with a level draw of 2: the first node
\* is filled and split by <<33>> into itself and a node of level 1, its 18
\* pairs are deleted, the node of level 1 is filled, and <<37>> is put.
GapScript ==
  FillScript
    \o <<ScriptPut(<<33>>, 1)>>
    \o [i \in 1 .. 17 |-> ScriptDel(<<66 - 2 * i>>)]
    \o <<ScriptDel(<<33>>)>>
    \o [i \in 1 .. 16 |-> ScriptPut(<<2 * i - 1>>, 0)]
    \o <<ScriptPut(<<35>>, 0), ScriptPut(<<37>>, 2)>>

\* The scenarios an exploration starts in: the empty store, database 1
\* with a full first node, the empty store whose operations carry flags
\* (database 2 is created with DUP_UINT32_VALS there), database 1 after
\* the calls of GapScript, database 1 created with DUP_UINT32_VALS after
\* the calls of DupScript, and database 1 created with DUP_UINT32_VALS
\* with a full first node.
FillTargets == {[scn |-> "empty", fill |-> 0], [scn |-> "fill", fill |-> FillLen],
                [scn |-> "flags", fill |-> 0], [scn |-> "gap", fill |-> Len(GapScript)],
                [scn |-> "dup", fill |-> Len(DupScript)],
                [scn |-> "dupfill", fill |-> FillLen]}

Script == IF shadow.scn = "gap" THEN GapScript
          ELSE IF shadow.scn = "dup" THEN DupScript
          ELSE IF shadow.scn = "dupfill" THEN DupFillScript ELSE FillScript

\* Around the full first node: <<33>> and <<9>> fall before and behind the
\* pivot of a split, <<1>> behind the last key, <<34>> is a key of the fill.
\* From the empty store: two keys that agree up to a zero byte, and <<9>>.
\* After GapScript: the only key of the first node and a key of the second.
ProbeKeys == IF shadow.scn \in {"flags", "dup"} THEN {<<9>>}
             ELSE IF shadow.scn = "gap" THEN {<<37>>, <<9>>}
             ELSE IF shadow.fill = 0 THEN {<<0, 1>>, <<0, 2>>, <<9>>}
             ELSE {<<33>>, <<9>>, <<1>>, <<34>>}

Vals == {<<7>>, <<8, 8>>}

\* The numbers 5, 2 and 256 as uint32_t values.
DupVals == {<<5, 0, 0, 0>>, <<2, 0, 0, 0>>, <<0, 1, 0, 0>>}

\* The flags a database is created with, and the flag sets of a request.
HomeFlags(dbid) ==
  IF (shadow.scn = "flags" /\ dbid = 2) \/ (shadow.scn \in {"dup", "dupfill"} /\ dbid = 1)
    THEN {"DUP_UINT32_VALS"} ELSE {}

DbFlagSets == {{}, {"DUP_UINT32_VALS"}}

IsDup(db) == kv.dbs[db].dbflg \cap IWDB_DUP_FLAGS # {}

\* The values and operation flags of the puts on database db.
PutVals(db) == IF IsDup(db) THEN DupVals ELSE Vals

PutFlags(db) ==
  IF shadow.scn \notin {"flags", "dup", "dupfill"} THEN {{}}
  ELSE IF IsDup(db) THEN {{}, {"DUP_REMOVE"}}
  ELSE {{}, {"NO_OVERWRITE"}}

KvPageSize == 4096

NoSplit == [on |-> FALSE, node |-> FALSE]

NoFailed == [on |-> FALSE]

NoCur == [cn |-> NULL, dbaddr |-> 0, cnpos |-> 0, closed |-> TRUE]

\* The world an operation starts in: the store as the variables hold it.
World(r) ==
  [fsm |-> fsm, mm |-> kv.mm, hdr |-> kv.hdr, dbs |-> kv.dbs, oflags |-> kv.oflags,
   lx |-> NewLx(0, <<>>, <<>>, "NONE", {}), cur |-> NoCur,
   rc |-> "OK", ptr |-> NULL, idx |-> 0, found |-> FALSE, res |-> 0,
   key |-> <<>>, val |-> <<>>, addr |-> 0, len |-> 0, rnd |-> r,
   g |-> [nodes |-> shadow.nodes, split |-> NoSplit, failed |-> NoFailed,
          segv |-> FALSE, drew |-> FALSE]]

\* What the file holds, read without the store: the nodes of a database
\* along n[0], and the pairs of a node in the order of pi.
RECURSIVE NodeChain(_, _, _)
NodeChain(mm, blk, fuel) ==
  IF blk = 0 \/ fuel = 0 THEN <<>>
  ELSE <<BLK2ADDR(blk)>> \o NodeChain(mm, MmSblk(mm, BLK2ADDR(blk)).n[0], fuel - 1)

DbNodes(mm, dbaddr) == NodeChain(mm, MmDb(mm, dbaddr).n[0], MaxScan)

NodePairs(mm, a) ==
  LET s  == MmSblk(mm, a)
      b  == MmKvblk(mm, BLK2ADDR(s.kvblkn))
      kb == [ZeroKvblk EXCEPT !.addr = BLK2ADDR(s.kvblkn), !.szpow = b.szpow, !.pidx = b.pidx]
      Pair(r) == [key |-> r.key, val |-> r.val]
  IN [i \in 1 .. s.pnum |-> Pair(kvblk_getkv(kb, mm, s.pi[i - 1]))]

Range(s) == {s[i] : i \in DOMAIN s}

DbPairs(mm, dbaddr) ==
  UNION {Range(NodePairs(mm, a)) : a \in Range(DbNodes(mm, dbaddr))}

\* Maps from keys to values.
MapPut(m, k, v) == [x \in DOMAIN m \cup {k} |-> IF x = k THEN v ELSE m[x]]

MapDel(m, k) == [x \in DOMAIN m \ {k} |-> m[x]]

\* A full scan: iwkv_cursor_to(op) and iwkv_cursor_get until NotFound.
RECURSIVE cursor_scan(_, _, _, _)
cursor_scan(w, op, acc, fuel) ==
  LET Got(w2) ==
        IF w2.rc # "OK" THEN [w |-> w2, rc |-> w2.rc, kvs |-> acc]
        ELSE cursor_scan(w2, op, Append(acc, [key |-> w2.key, val |-> w2.val]), fuel - 1)
      To(w1) ==
        IF w1.rc = "NOTFOUND" THEN [w |-> w1, rc |-> "OK", kvs |-> acc]
        ELSE IF w1.rc # "OK" THEN [w |-> w1, rc |-> w1.rc, kvs |-> acc]
        ELSE Got(iwkv_cursor_get(w1))
  IN IF fuel = 0 THEN [w |-> w, rc |-> "ENDLESS", kvs |-> acc]
     ELSE To(iwkv_cursor_to(w, op))

\* iwkv_open of a new file, or of the file a close left behind; oflags
\* is {} or {"RDONLY"}.
iwkv_open(file, oflags) ==
  LET omode == IF "RDONLY" \in oflags THEN {"OREAD"} ELSE {"OREAD", "OWRITE"}
      f0 == fsm_init_impl(KvPageSize, IWKV_FSM_BPOW, {}, omode)
      New(r) == [rc |-> r.rc, fsm |-> r.f, hdr |-> [magic |-> IWKV_MAGIC, first_db |-> 0],
                 dbs |-> <<>>]
      Chain(w) == [rc |-> w.rc, fsm |-> w.fsm, hdr |-> w.hdr, dbs |-> w.dbs]
      Old(f) ==
        IF file.hdr.magic # IWKV_MAGIC
          THEN [rc |-> "CORRUPTED", fsm |-> f, hdr |-> file.hdr, dbs |-> <<>>]
        ELSE Chain(db_load_chain([World(0) EXCEPT !.fsm = f, !.mm = file.mm,
                                                   !.hdr = file.hdr, !.dbs = <<>>,
                                                   !.oflags = oflags],
                                 file.hdr.first_db))
  IN IF file.new THEN New(fsm_init_new_lw(f0, KVHDRSZ, 0))
     ELSE Old(fsm_init_existing_lw(file.meta, KvPageSize, {}, omode))

\* iwkv_close: the handles of the databases are dropped and the allocator is closed.
iwkv_close(w) ==
  LET Go(c) == [rc |-> c.rc, fsm |-> c.f,
                file |-> [new |-> FALSE, meta |-> c.meta, hdr |-> w.hdr,
                          mm |-> MmTruncate(w.mm, c.lastblk)]]
  IN Go(fsm_close(w.fsm))

Init ==
  /\ fsm = iwkv_open([new |-> TRUE], {}).fsm
  /\ live = {}
  /\ flast = NoCall
  /\ kv = [open |-> TRUE, mm |-> <<>>, hdr |-> iwkv_open([new |-> TRUE], {}).hdr,
           dbs |-> <<>>, oflags |-> {}, reopens |-> 0]
  /\ \E t \in FillTargets :
       shadow = [scn |-> t.scn, fill |-> t.fill, rt |-> <<>>, dv |-> <<>>,
                 nodes |-> <<>>, closed |-> <<>>]
  /\ last = NoCall
  /\ nops = 0
  /\ shared = NoShared
  /\ threads = <<>>

Filling == nops < shadow.fill

Free == nops >= shadow.fill
        /\ nops < shadow.fill + (IF shadow.scn = "flags" THEN MaxOpsFlags
                                 ELSE IF shadow.scn = "gap" THEN MaxOpsGap
                                 ELSE IF shadow.scn = "dup" THEN MaxOpsDup
                                 ELSE IF shadow.scn = "dupfill" THEN MaxOpsDupFill
                                 ELSE IF shadow.fill = 0 THEN MaxOpsEmpty ELSE MaxOps)

Store(w) ==
  /\ fsm' = w.fsm
  /\ kv' = [kv EXCEPT !.mm = w.mm, !.hdr = w.hdr, !.dbs = w.dbs]
  /\ UNCHANGED <<live, flast, shared, threads>>

\* The forward pointers of the block at addr (a node, or the header of a
\* database) as the file holds them.  A node of level lvl has the pointers
\* n[0 .. lvl]: _sblk_sync_mm writes and _sblk_at reads no more than these,
\* and the bytes behind them are whatever the block held before.
FwdPtrs(mm, addr, isdb) ==
  IF isdb THEN MmDb(mm, addr).n
  ELSE [i \in 0 .. SLEVELS - 1 |->
          IF i <= MmSblk(mm, addr).lvl THEN MmSblk(mm, addr).n[i] ELSE 0]

\* The back pointer p0 of the block at addr.
BackPtr(mm, addr, isdb) == IF isdb THEN MmDb(mm, addr).p0 ELSE MmSblk(mm, addr).p0

\* The pairs the file holds for database db under key.
Held(mm, dbs, db, key) == {p \in DbPairs(mm, dbs[db].addr) : p.key = key}

\* iwkv_db.  A database is created with its home flags before the first
\* operation; in the flags scenario an existing database is also requested
\* later, with either flag set.  same: the call left allocator, file and
\* handles as they were; idx: the handle returned (0: none); old: the
\* flags of the database of that id before the call, if there was one.
KvDb ==
  /\ kv.open
  /\ nops = 0 \/ (shadow.scn = "flags" /\ Free)
  /\ \E dbid \in 1 .. Min({NumDb, Len(kv.dbs) + 1}), dbflg \in DbFlagSets :
       /\ IF dbid > Len(kv.dbs) THEN nops = 0 /\ dbflg = HomeFlags(dbid)
          ELSE shadow.scn = "flags" \/ dbflg = HomeFlags(dbid)
       /\ LET Go(w) ==
                /\ Store(w)
                /\ shadow' = [shadow EXCEPT !.nodes = w.g.nodes,
                                            !.rt = IF Len(w.dbs) > Len(kv.dbs)
                                                     THEN Append(@, <<>>) ELSE @,
                                            !.dv = IF Len(w.dbs) > Len(kv.dbs)
                                                     THEN Append(@, <<>>) ELSE @]
                /\ last' = [op |-> "db", rc |-> w.rc, id |-> dbid, flg |-> dbflg,
                            idx |-> w.idx,
                            old |-> {kv.dbs[i].dbflg :
                                       i \in {j \in DOMAIN kv.dbs : kv.dbs[j].id = dbid}},
                            same |-> w.fsm = fsm /\ w.mm = kv.mm /\ w.dbs = kv.dbs]
          IN Go(iwkv_db(World(0), dbid, dbflg))
  /\ nops' = IF nops = 0 THEN 0 ELSE nops + 1

\* iwkv_put.  shadow.rt holds, for each key, the value of its last
\* successful put as long as no other put or del of that key was called
\* since; shadow.dv holds, for each key of a database with DUP flags, the
\* values added and not removed by the puts that succeeded.  stored: the
\* file held a pair under the key; kept: it holds the same pairs under the
\* key as before; same: allocator, file and handles are as they were.
KvPut ==
  /\ kv.open
  /\ kv.dbs # <<>>
  /\ (Filling /\ Script[nops + 1].op = "put") \/ Free
  /\ \E db \in (IF Filling THEN {1} ELSE 1 .. Len(kv.dbs)),
        key \in (IF Filling THEN {Script[nops + 1].key} ELSE ProbeKeys),
        r \in (IF Filling THEN {Script[nops + 1].r} ELSE 0 .. MaxDraw) :
       \E val \in (IF Filling THEN {Script[nops + 1].val} ELSE PutVals(db)),
          opflags \in (IF Filling THEN {Script[nops + 1].flags} ELSE PutFlags(db)) :
         LET Dv(m) ==
               IF ~IsDup(db) THEN m
               ELSE IF "DUP_REMOVE" \in opflags
                 THEN MapPut(m, key, (IF key \in DOMAIN m THEN m[key] ELSE {}) \ {val})
               ELSE MapPut(m, key, (IF key \in DOMAIN m THEN m[key] ELSE {}) \cup {val})
             Go(w) ==
               /\ r = 0 \/ w.g.drew
               /\ Store(w)
               /\ shadow' = [shadow EXCEPT !.nodes = w.g.nodes,
                                           !.rt[db] = IF w.rc = "OK" THEN MapPut(@, key, val)
                                                      ELSE MapDel(@, key),
                                           !.dv[db] = IF w.rc = "OK" THEN Dv(@) ELSE @]
               /\ last' = [op |-> "put", db |-> db, key |-> key, val |-> val, rc |-> w.rc,
                           flags |-> opflags,
                           stored |-> Held(kv.mm, kv.dbs, db, key) # {},
                           kept |-> Held(w.mm, w.dbs, db, key) = Held(kv.mm, kv.dbs, db, key),
                           same |-> w.fsm = fsm /\ w.mm = kv.mm /\ w.dbs = kv.dbs,
                           split |-> w.g.split, segv |-> w.g.segv, drew |-> w.g.drew,
                           failed |-> w.g.failed,
                           lcnt0 |-> kv.dbs[db].lcnt,
                           held0 |-> Held(kv.mm, kv.dbs, db, key),
                           fwd0 |-> [a \in shadow.nodes[db] \cup {kv.dbs[db].addr} |->
                                       FwdPtrs(kv.mm, a, a = kv.dbs[db].addr)]]
         IN Go(iwkv_put(World(r), db, key, val, opflags))
  /\ nops' = nops + 1

\* iwkv_get
KvGet ==
  /\ kv.open
  /\ Free
  /\ \E db \in 1 .. Len(kv.dbs), key \in ProbeKeys :
       LET Go(w) ==
             /\ Store(w)
             /\ last' = [op |-> "get", db |-> db, key |-> key, rc |-> w.rc, val |-> w.val]
       IN Go(iwkv_get(World(0), db, key))
  /\ nops' = nops + 1
  /\ UNCHANGED shadow

\* iwkv_del, called on a store that is open for writing.  stored: the key
\* is the key of a pair the file holds for the database; same: the call
\* left allocator, file and handles as they were.
KvDel ==
  /\ kv.open
  /\ "RDONLY" \notin kv.oflags
  /\ (Filling /\ Script[nops + 1].op = "del") \/ Free
  /\ \E db \in (IF Filling THEN {1} ELSE 1 .. Len(kv.dbs)),
        key \in (IF Filling THEN {Script[nops + 1].key} ELSE ProbeKeys) :
       LET Go(w) ==
             /\ Store(w)
             /\ shadow' = [shadow EXCEPT !.nodes = w.g.nodes,
                                         !.rt[db] = MapDel(@, key),
                                         !.dv[db] = IF w.rc = "OK" THEN MapDel(@, key) ELSE @]
             /\ last' = [op |-> "del", db |-> db, key |-> key, rc |-> w.rc,
                         stored |-> Held(kv.mm, kv.dbs, db, key) # {},
                         same |-> w.fsm = fsm /\ w.mm = kv.mm /\ w.dbs = kv.dbs
                                  /\ w.g.nodes = shadow.nodes,
                         again |-> last.op = "del" /\ last.rc = "OK" /\ last.db = db
                                   /\ last.key = key,
                         gone |-> shadow.nodes[db] \ w.g.nodes[db],
                         fwd0 |-> [a \in shadow.nodes[db] \cup {kv.dbs[db].addr} |->
                                     FwdPtrs(kv.mm, a, a = kv.dbs[db].addr)],
                         pre |-> [a \in shadow.nodes[db] |->
                                    [p0 |-> MmSblk(kv.mm, a).p0, lvl |-> MmSblk(kv.mm, a).lvl,
                                     kvblkn |-> MmSblk(kv.mm, a).kvblkn,
                                     szpow |-> MmKvblk(kv.mm,
                                                 BLK2ADDR(MmSblk(kv.mm, a).kvblkn)).szpow]]]
       IN Go(iwkv_del(World(0), db, key))
  /\ nops' = nops + 1

\* iwkv_cursor_open, a full scan, iwkv_cursor_close
KvScan ==
  /\ kv.open
  /\ Free
  /\ \E db \in 1 .. Len(kv.dbs), op \in {"NEXT", "PREV"} :
       LET Closed(w, s) ==
             /\ Store(w)
             /\ last' = [op |-> "scan", db |-> db, dir |-> op, rc |-> s.rc, kvs |-> s.kvs]
           Scanned(s) == Closed(iwkv_cursor_close(s.w), s)
           Opened(w) ==
             Scanned(IF w.rc # "OK" THEN [w |-> w, rc |-> w.rc, kvs |-> <<>>]
                     ELSE cursor_scan(w, op, <<>>, MaxScan))
       IN Opened(iwkv_cursor_open(World(0), db,
                                  IF op = "NEXT" THEN "BEFORE_FIRST" ELSE "AFTER_LAST", <<>>))
  /\ nops' = nops + 1
  /\ UNCHANGED shadow

\* iwkv_cursor_open, iwkv_cursor_to_key with EQ or GE, iwkv_cursor_get on
\* success, iwkv_cursor_close.  keys: the keys of the pairs the file holds
\* for the database; got: the key the cursor stands on.  The cursor is
\* opened on the first database.
KvSeek ==
  /\ kv.open
  /\ Free
  /\ shadow.scn # "flags"
  /\ kv.dbs # <<>>
  /\ \E db \in {1}, key \in ProbeKeys, op \in {"EQ", "GE"} :
       LET Closed(w, t, g) ==
             /\ Store(w)
             /\ last' = [op |-> "seek", db |-> db, key |-> key, mode |-> op, rc |-> t.rc,
                         got |-> IF g.rc = "OK" THEN g.key ELSE <<>>, grc |-> g.rc,
                         keys |-> {p.key : p \in DbPairs(kv.mm, kv.dbs[db].addr)}]
           Got(t, g) == Closed(iwkv_cursor_close(g), t, g)
           At(t) == Got(t, IF t.rc = "OK" THEN iwkv_cursor_get(t) ELSE t)
           Opened(w) == At(IF w.rc # "OK" THEN w ELSE iwkv_cursor_to_key(w, op, key))
       IN Opened(iwkv_cursor_open(World(0), db, "BEFORE_FIRST", <<>>))
  /\ nops' = nops + 1
  /\ UNCHANGED shadow

\* iwkv_close
KvClose ==
  /\ kv.open
  /\ Free
  /\ kv.reopens < MaxReopen
  /\ LET Go(c) ==
           /\ fsm' = c.fsm
           /\ kv' = [open |-> FALSE, mm |-> c.file.mm, hdr |-> c.file.hdr, dbs |-> <<>>,
                     oflags |-> kv.oflags, reopens |-> kv.reopens, file |-> c.file]
           /\ shadow' = [shadow EXCEPT !.closed =
                           [i \in 1 .. Len(kv.dbs) |->
                              [id |-> kv.dbs[i].id,
                               pairs |-> DbPairs(kv.mm, kv.dbs[i].addr)]]]
           /\ last' = [op |-> "close", rc |-> c.rc]
     IN Go(iwkv_close(World(0)))
  /\ UNCHANGED <<live, flast, nops, shared, threads>>

\* iwkv_open of the file that was closed, for writing or RDONLY
KvOpen ==
  /\ ~kv.open
  /\ \E oflags \in {{}, {"RDONLY"}} :
       LET Go(o) ==
             /\ fsm' = o.fsm
             /\ kv' = [open |-> o.rc = "OK", mm |-> kv.mm, hdr |-> o.hdr, dbs |-> o.dbs,
                       oflags |-> oflags, reopens |-> kv.reopens + 1]
             /\ last' = [op |-> "open", rc |-> o.rc]
       IN Go(iwkv_open(kv.file, oflags))
  /\ UNCHANGED <<live, flast, shadow, nops, shared, threads>>

Next == KvDb \/ KvPut \/ KvGet \/ KvDel \/ KvScan \/ KvSeek \/ KvClose \/ KvOpen

Spec == Init /\ [][Next]_vars

(***************************************************************************)
(* Properties of the store                                                 *)
(***************************************************************************)
DbFlg(d) == kv.dbs[d].dbflg

\* The nodes of database d whose level is lvl.
NodesAt(d, lvl) == {a \in shadow.nodes[d] : MmSblk(kv.mm, a).lvl = lvl}

\* The keys of a sequence of pairs go strictly up (dir = "NEXT") or strictly
\* down (dir = "PREV") under the comparator of database d.
StrictOrder(d, kvs, dir) ==
  \A i, j \in DOMAIN kvs :
    i < j => IF dir = "NEXT" THEN cmp_key(DbFlg(d), kvs[i].key, kvs[j].key) < 0
             ELSE cmp_key(DbFlg(d), kvs[i].key, kvs[j].key) > 0

\* C1 (round trip): in a database without DUP flags, a get of key k that
\* follows a successful put(k, v), with no put or del of k called in between,
\* returns OK and exactly v.
C1_RoundTrip ==
  (last.op = "get" /\ last.key \in DOMAIN shadow.rt[last.db]
     /\ DbFlg(last.db) \cap IWDB_DUP_FLAGS = {})
    => (last.rc = "OK" /\ last.val = shadow.rt[last.db][last.key])

\* C2 (order): a full scan from BEFORE_FIRST with NEXT, or from AFTER_LAST
\* with PREV, ends without error, yields exactly the pairs the nodes of the
\* database hold in the file (read along n[0] and pi, without the cursor),
\* and yields them in strictly ascending, respectively strictly descending,
\* comparator order; strictness makes every key appear exactly once.
C2_ScanOrder ==
  last.op = "scan" =>
    /\ last.rc = "OK"
    /\ Range(last.kvs) = DbPairs(kv.mm, kv.dbs[last.db].addr)
    /\ StrictOrder(last.db, last.kvs, last.dir)

\* A reverse scan that has crossed from one node into the next.
C2_Witness ==
  /\ last.op = "scan" /\ last.dir = "PREV" /\ last.rc = "OK"
  /\ Len(last.kvs) > KVBLK_IDXNUM

\* C3 (idempotent delete): del of a key that is not stored returns NOTFOUND
\* and leaves nodes, pairs, lcnt and the allocator as they were; a del of a
\* key right after its successful del returns NOTFOUND.
C3_IdempotentDelete ==
  /\ (last.op = "del" /\ ~last.stored) => (last.rc = "NOTFOUND" /\ last.same)
  /\ (last.op = "del" /\ last.again) => last.rc = "NOTFOUND"

\* C4 (persistence): after close and reopen of the file, the databases are
\* the ones that existed at the close, each with the pairs it held then.
C4_Persistence ==
  last.op = "open" =>
    /\ last.rc = "OK"
    /\ Len(kv.dbs) = Len(shadow.closed)
    /\ \A i \in DOMAIN kv.dbs :
         /\ kv.dbs[i].id = shadow.closed[i].id
         /\ DbPairs(kv.mm, kv.dbs[i].addr) = shadow.closed[i].pairs

\* A reopened file with two databases, one of them holding pairs in two nodes.
C4_Witness ==
  /\ last.op = "open" /\ last.rc = "OK" /\ Len(kv.dbs) = NumDb
  /\ \E i \in DOMAIN shadow.closed : Cardinality(shadow.closed[i].pairs) > KVBLK_IDXNUM

\* C8 (split preservation): after a put that split node lower into lower
\* and a new node, the pairs of the two nodes together are the pairs lower
\* held before plus the inserted pair, and every key of lower comes strictly
\* before every key of the new node.
C8_SplitPreservation ==
  (last.op = "put" /\ last.split.on /\ last.split.node) =>
    /\ Range(NodePairs(kv.mm, last.split.lower)) \cup Range(NodePairs(kv.mm, last.split.nb))
         = last.split.pre \cup {last.split.ins}
    /\ \A a \in Range(NodePairs(kv.mm, last.split.lower)),
          b \in Range(NodePairs(kv.mm, last.split.nb)) :
         cmp_key(DbFlg(last.db), a.key, b.key) < 0

\* A split of a full node at its pivot: pairs were moved to the new node
\* and the inserted pair went into the lower one.
C8_Witness ==
  /\ last.op = "put" /\ last.rc = "OK" /\ last.split.on /\ last.split.node
  /\ last.split.idx < KVBLK_IDXNUM
  /\ Len(NodePairs(kv.mm, last.split.nb)) > 1
  /\ last.split.ins \in Range(NodePairs(kv.mm, last.split.lower))

\* C9 (level counters): for every database and level lvl, lcnt[lvl] of the
\* database equals the number of its nodes whose level is lvl.
C9_LevelCounters ==
  kv.open => \A d \in DOMAIN kv.dbs : \A lvl \in 0 .. SLEVELS - 1 :
    kv.dbs[d].lcnt[lvl] = Cardinality(NodesAt(d, lvl))

\* C10 (pi sorted): in every node the keys named by pi[0 .. pnum - 1] are
\* strictly ascending under the comparator of the database.
C10_PiSorted ==
  kv.open => \A d \in DOMAIN kv.dbs : \A a \in shadow.nodes[d] :
    StrictOrder(d, NodePairs(kv.mm, a), "NEXT")

\* A put of a new key that went between two keys of a node.
C10_Witness ==
  /\ last.op = "put" /\ last.rc = "OK" /\ ~last.split.on
  /\ shadow.fill > 0 /\ last.key \notin Range(FillKeys)
  /\ \E a \in shadow.nodes[last.db] :
       \E i \in DOMAIN NodePairs(kv.mm, a) :
         /\ 1 < i /\ i < Len(NodePairs(kv.mm, a))
         /\ NodePairs(kv.mm, a)[i].key = last.key

\* Every non-zero n[i] of the block at addr names a node of database d,
\* and every key of that node comes strictly after every key in keys.
FwdOrdered(d, addr, isdb, keys) ==
  \A i \in 0 .. SLEVELS - 1 :
    FwdPtrs(kv.mm, addr, isdb)[i] # 0 =>
      /\ BLK2ADDR(FwdPtrs(kv.mm, addr, isdb)[i]) \in shadow.nodes[d]
      /\ \A a \in keys,
            b \in Range(NodePairs(kv.mm, BLK2ADDR(FwdPtrs(kv.mm, addr, isdb)[i]))) :
           cmp_key(DbFlg(d), a.key, b.key) < 0

\* C11 (forward pointers): every non-zero forward pointer n[i] of every
\* node and of every database header refers to a node of the database whose
\* keys are all strictly greater, under the comparator, than every key of
\* the pointing node; zero is the implicit tail.
C11_ForwardOrder ==
  kv.open => \A d \in DOMAIN kv.dbs :
    /\ FwdOrdered(d, kv.dbs[d].addr, TRUE, {})
    /\ \A a \in shadow.nodes[d] : FwdOrdered(d, a, FALSE, Range(NodePairs(kv.mm, a)))

\* A split has put a node of level 1 behind a full node: the header points
\* to it at level 1 and the full node at level 0.
C11_Witness ==
  /\ kv.open /\ last.op = "put" /\ last.rc = "OK" /\ last.split.on /\ last.split.node
  /\ MmDb(kv.mm, kv.dbs[last.db].addr).n[1] # 0
  /\ \E a \in shadow.nodes[last.db] :
       /\ MmSblk(kv.mm, a).n[0] # 0
       /\ NodePairs(kv.mm, a) # <<>>
       /\ NodePairs(kv.mm, BLK2ADDR(MmSblk(kv.mm, a).n[0])) # <<>>

\* The slot of a key in a database with DUP_UINT32_VALS: the count the
\* value starts with, and the numbers behind it.
DupCount(val) == RdU32(SubSeq(val, 1, 4))

DupNums(val) == [i \in 1 .. DupCount(val) |-> SubSeq(val, 4 * i + 1, 4 * i + 4)]

C15_NoOverwrite ==
  (last.op = "put" /\ "NO_OVERWRITE" \in last.flags /\ last.stored)
    => (last.rc = "KEY_EXISTS" /\ last.kept /\ last.same)

\* C15 as amended: on a store that is open for writing, a put with
\* NO_OVERWRITE of a key that is stored returns KEY_EXISTS and changes
\* nothing (on a store opened RDONLY the answer is READONLY).
C15_NoOverwriteWritable ==
  (last.op = "put" /\ "NO_OVERWRITE" \in last.flags /\ last.stored
     /\ "RDONLY" \notin kv.oflags)
    => (last.rc = "KEY_EXISTS" /\ last.kept /\ last.same)

\* Such a put was made with a value other than the one that is stored.
C15_Witness ==
  /\ kv.open /\ last.op = "put" /\ "NO_OVERWRITE" \in last.flags /\ last.stored
  /\ "RDONLY" \notin kv.oflags /\ last.rc = "KEY_EXISTS"
  /\ \E p \in DbPairs(kv.mm, kv.dbs[last.db].addr) : p.key = last.key /\ p.val # last.val

C17_IncompatibleMode ==
  (last.op = "db" /\ last.old # {} /\ last.flg \notin last.old)
    => (last.rc = "INCOMPATIBLE_DB_MODE" /\ last.idx = 0 /\ last.same)

\* The database with DUP_UINT32_VALS, holding a key, was requested without flags.
C17_Witness ==
  /\ kv.open /\ last.op = "db" /\ last.rc = "INCOMPATIBLE_DB_MODE"
  /\ last.old = {{"DUP_UINT32_VALS"}} /\ last.flg = {}
  /\ DbPairs(kv.mm, kv.dbs[last.id].addr) # {}

\* C21: no put returns one of the internal codes KVBLOCK_FULL and
\* REQUIRE_NLEVEL; a put whose _lx_addkv asked for a level (the node was
\* full) has drawn one and descended again, and without operation flags it
\* has split and returned OK.
C21_InternalCodes ==
  last.op = "put" =>
    /\ last.rc \notin {"KVBLOCK_FULL", "REQUIRE_NLEVEL"}
    /\ (last.drew /\ last.flags = {}) => (last.rc = "OK" /\ last.split.on)

\* A put into a full node: the level was drawn and the node was split.
C21_Witness ==
  /\ last.op = "put" /\ last.drew /\ last.rc = "OK"
  /\ last.split.on /\ last.split.node

\* The order of keys as byte strings: byte by byte, a proper prefix first.
RECURSIVE BytesLess(_, _)
BytesLess(a, b) ==
  IF b = <<>> THEN FALSE
  ELSE IF a = <<>> THEN TRUE
  ELSE IF Head(a) # Head(b) THEN Head(a) < Head(b)
  ELSE BytesLess(Tail(a), Tail(b))

\* The stored keys at or above the key of the last seek.
SeekAbove == {k \in last.keys : BytesLess(last.key, k)}

\* C24: iwkv_cursor_to_key with a key that is not stored fails with NOTFOUND
\* under EQ; under GE it puts the cursor on the least stored key that is
\* greater than the given key (the entry before the index at which the
\* binary search of the lower node ended), and fails with NOTFOUND when no
\* stored key is greater.
C24_SeekAbsent ==
  (last.op = "seek" /\ last.key \notin last.keys) =>
    /\ last.mode = "EQ" => last.rc = "NOTFOUND"
    /\ last.mode = "GE" =>
         IF SeekAbove = {} THEN last.rc = "NOTFOUND"
         ELSE /\ last.rc = "OK" /\ last.grc = "OK"
              /\ last.got \in SeekAbove
              /\ \A k \in SeekAbove : k = last.got \/ BytesLess(last.got, k)

\* The nodes of all databases, and the extent (in blocks) of the pair
\* block a node names in its kvblkn field.
KvNodes == UNION {shadow.nodes[d] : d \in DOMAIN kv.dbs}

NodeKvblk(a) ==
  LET blkn == MmSblk(kv.mm, a).kvblkn
  IN [off |-> blkn, len |-> ADDR2BLK(2 ^ MmKvblk(kv.mm, BLK2ADDR(blkn)).szpow)]

\* The extents the file layout accounts for besides pair blocks: the
\* header, the bitmap, the database headers and the nodes.
KvFixedExtents ==
  {[off |-> 0, len |-> ADDR2BLK(fsm.hdrlen)],
   [off |-> ADDR2BLK(fsm.bmoff), len |-> ADDR2BLK(fsm.bmlen)]}
    \cup {[off |-> ADDR2BLK(kv.dbs[d].addr), len |-> ADDR2BLK(DB_SZ)] : d \in DOMAIN kv.dbs}
    \cup {[off |-> ADDR2BLK(a), len |-> ADDR2BLK(SBLK_SZ)] : a \in KvNodes}

ExtDisjoint(e1, e2) == RunEnd(e1) <= e2.off \/ RunEnd(e2) <= e1.off

\* C25 (1:1 ownership): after any sequence of puts, splits and deletes every
\* node names one pair block, which the file holds and the allocator has
\* marked allocated; the pair blocks of two different nodes do not overlap;
\* and every allocated block of the file that is not header, bitmap,
\* database header or node belongs to the pair block of a node.
C25_OneToOne ==
  kv.open =>
    /\ \A a \in KvNodes :
         /\ MmSblk(kv.mm, a).kvblkn # 0
         /\ MmAt(kv.mm, BLK2ADDR(MmSblk(kv.mm, a).kvblkn)).t = "kvblk"
         /\ BmAllSet(fsm.bm, NodeKvblk(a).off, NodeKvblk(a).len)
         /\ \A e \in KvFixedExtents : ExtDisjoint(NodeKvblk(a), e)
    /\ \A a, b \in KvNodes : a # b => ExtDisjoint(NodeKvblk(a), NodeKvblk(b))
    /\ SumLen(fsm.bm) = SumLen(KvFixedExtents) + SumLen({NodeKvblk(a) : a \in KvNodes})

\* A split has added a second node and a later del has removed a node.
C25_Witness ==
  /\ kv.open /\ last.op = "del" /\ last.rc = "OK"
  /\ shadow.fill > 0
  /\ last.gone # {}
  /\ Cardinality(KvNodes) = 1

\* C26 (no orphan level): after a put that created a node at the level
\* _sblk_genlevel returned, the database counts at least one node at that
\* level and at every level below it.
C26_NoOrphanLevel ==
  (last.op = "put" /\ last.rc = "OK" /\ last.split.on) =>
    \A i \in 0 .. last.split.lvl : kv.dbs[last.db].lcnt[i] > 0

\* The parts of C38 for a put whose split failed after _sblk_create: the
\* new node and its pair block are back in the allocator and the database
\* does not list the node; no forward or back pointer of the database
\* names it; lcnt is what it was before the put; the lower node holds the
\* pairs it held before the split.
FailedSplit == last.op = "put" /\ last.rc # "OK" /\ last.failed.on

C38_NewNodeDestroyed ==
  FailedSplit =>
    /\ last.failed.nb \notin shadow.nodes[last.db]
    /\ ~BmAnySet(fsm.bm, ADDR2BLK(last.failed.nb), ADDR2BLK(SBLK_SZ))
    /\ ~BmBit(fsm.bm, ADDR2BLK(last.failed.kvb))

C38_NoPointerToNew ==
  FailedSplit =>
    \A a \in shadow.nodes[last.db] \cup {kv.dbs[last.db].addr} :
      /\ BackPtr(kv.mm, a, a = kv.dbs[last.db].addr) # ADDR2BLK(last.failed.nb)
      /\ \A i \in 0 .. SLEVELS - 1 :
           FwdPtrs(kv.mm, a, a = kv.dbs[last.db].addr)[i] # ADDR2BLK(last.failed.nb)

C38_LcntRestored ==
  FailedSplit =>
    /\ kv.dbs[last.db].lcnt = last.lcnt0
    /\ MmDb(kv.mm, kv.dbs[last.db].addr).c = last.lcnt0

C38_LowerKeepsPairs ==
  FailedSplit => Range(NodePairs(kv.mm, last.failed.lower)) = last.failed.pre

C38_UpperFailed == FailedSplit /\ last.failed.idx = KVBLK_IDXNUM

LastDbAddr == kv.dbs[last.db].addr

PinnedAddr(a) == IF a = 0 THEN LastDbAddr ELSE a

SplitNew == ADDR2BLK(last.split.nb)

\* C27 (split rewiring): after a put that created node new at level nlvl
\* between lower and upper, upper.p0 = new and new.p0 = lower; for every
\* level i in 0 .. nlvl the pinned plower[i] and pupper[i] were neighbours,
\* plower[i].n[i] = new and new.n[i] = pupper[i]; every other forward
\* pointer of every block that was there before is what it was, and
\* lcnt[nlvl] has grown by exactly one while the other counters are kept.
C27_SplitRewire ==
  (last.op = "put" /\ last.rc = "OK" /\ last.split.on) =>
    /\ BackPtr(kv.mm, PinnedAddr(last.split.pupper[0]),
               PinnedAddr(last.split.pupper[0]) = LastDbAddr) = SplitNew
    /\ MmSblk(kv.mm, last.split.nb).p0 = ADDR2BLK(last.split.lower)
    /\ last.split.plower[0] = last.split.lower
    /\ \A i \in 0 .. last.split.lvl :
         /\ last.fwd0[last.split.plower[i]][i] = ADDR2BLK(last.split.pupper[i])
         /\ FwdPtrs(kv.mm, last.split.plower[i], last.split.plower[i] = LastDbAddr)[i]
              = SplitNew
         /\ FwdPtrs(kv.mm, last.split.nb, FALSE)[i] = ADDR2BLK(last.split.pupper[i])
    /\ \A a \in DOMAIN last.fwd0 : \A j \in 0 .. SLEVELS - 1 :
         (j > last.split.lvl \/ a # last.split.plower[j]) =>
           FwdPtrs(kv.mm, a, a = LastDbAddr)[j] = last.fwd0[a][j]
    /\ \A j \in 0 .. SLEVELS - 1 :
         kv.dbs[last.db].lcnt[j] = last.lcnt0[j] + (IF j = last.split.lvl THEN 1 ELSE 0)

\* A split that put a node of level 1 between two nodes.
C27_Witness ==
  /\ last.op = "put" /\ last.rc = "OK" /\ last.split.on /\ last.split.node
  /\ last.split.lvl = 1
  /\ last.split.pupper[0] # 0
  /\ last.split.plower[1] # last.split.lower

\* The block behind node g on level 0 before the last del: a node, or the
\* database header, which keeps the tail in p0.
DelSuccessor(g) ==
  IF last.fwd0[g][0] = 0 THEN LastDbAddr ELSE BLK2ADDR(last.fwd0[g][0])

\* C28 (unlink on del): after a del removed the last pair of a node g of
\* level L, at every level 0 .. L a block pointed at g before, every forward
\* pointer that named g now holds what g held at that level and no block
\* points at g; the p0 of g's successor is the p0 g had; and the blocks of
\* the node and of its pair block are free in the allocator.
C28_DelUnlink ==
  (last.op = "del" /\ last.rc = "OK") =>
    \A g \in last.gone :
      /\ \A i \in 0 .. last.pre[g].lvl :
           \E a \in DOMAIN last.fwd0 : last.fwd0[a][i] = ADDR2BLK(g)
      /\ \A a \in DOMAIN last.fwd0 \ {g} : \A j \in 0 .. SLEVELS - 1 :
           /\ FwdPtrs(kv.mm, a, a = LastDbAddr)[j] # ADDR2BLK(g)
           /\ FwdPtrs(kv.mm, a, a = LastDbAddr)[j]
                = (IF last.fwd0[a][j] = ADDR2BLK(g) THEN last.fwd0[g][j]
                   ELSE last.fwd0[a][j])
      /\ BackPtr(kv.mm, DelSuccessor(g), DelSuccessor(g) = LastDbAddr) = last.pre[g].p0
      /\ ~BmAnySet(fsm.bm, ADDR2BLK(g), ADDR2BLK(SBLK_SZ))
      /\ ~BmAnySet(fsm.bm, last.pre[g].kvblkn, ADDR2BLK(2 ^ last.pre[g].szpow))

\* A del removed a node of level 2 that stood before another node.
C28_Witness ==
  /\ last.op = "del" /\ last.rc = "OK"
  /\ \E g \in last.gone : last.pre[g].lvl = 2 /\ last.fwd0[g][1] # 0

\* The numbers of a slot without the number v.
DupWithout(nums, v) == SelectSeq(nums, LAMBDA x : x # v)

\* The slot the file holds under the key of the last put, as
\* iwkv_cursor_dup_num and an iteration read it: count and numbers.
LastSlots == {p.val : p \in Held(kv.mm, kv.dbs, last.db, last.key)}

\* The slot of the key of DupScript in database 1.
ScriptSlots == {p.val : p \in Held(kv.mm, kv.dbs, 1, <<9>>)}

\* C30 (sorted duplicates): in a database with DUP flags of a store that is
\* open for writing, a put of a number the slot of the key already holds
\* succeeds and leaves count and numbers as they are, and a DUP_REMOVE put
\* of such a number succeeds, takes out exactly that number and lowers the
\* count by one.  After the adds of 5, 2, 5 and 9 the slot has count 3 and
\* the numbers 2, 5, 9; after removing 5 it has count 2 and the numbers 2, 9.
C30_DupAddRemove ==
  /\ (kv.open /\ "RDONLY" \notin kv.oflags /\ last.op = "put" /\ IsDup(last.db)
      /\ \E p \in last.held0 : last.val \in Range(DupNums(p.val))) =>
       /\ last.rc = "OK"
       /\ Cardinality(LastSlots) = 1
       /\ \A p \in last.held0, q \in LastSlots :
            IF "DUP_REMOVE" \in last.flags
              THEN /\ DupCount(q) = DupCount(p.val) - 1
                   /\ DupNums(q) = DupWithout(DupNums(p.val), last.val)
              ELSE /\ DupCount(q) = DupCount(p.val)
                   /\ DupNums(q) = DupNums(p.val)
  /\ (shadow.scn = "dup" /\ nops = Len(DupScript) /\ kv.open) =>
       /\ Cardinality(ScriptSlots) = 1
       /\ \A q \in ScriptSlots :
            /\ DupCount(q) = 3
            /\ DupNums(q) = <<<<2, 0, 0, 0>>, <<5, 0, 0, 0>>, <<9, 0, 0, 0>>>>
  /\ (shadow.scn = "dup" /\ nops = Len(DupScript) + 1 /\ kv.open
      /\ "RDONLY" \notin kv.oflags /\ last.op = "put" /\ last.db = 1 /\ last.val = <<5, 0, 0, 0>> /\ "DUP_REMOVE" \in last.flags) =>
       /\ last.rc = "OK"
       /\ Cardinality(ScriptSlots) = 1
       /\ \A q \in ScriptSlots :
            /\ DupCount(q) = 2
            /\ DupNums(q) = <<<<2, 0, 0, 0>>, <<9, 0, 0, 0>>>>

\* 5 was removed from the slot that held 2, 5 and 9.
C30_Witness ==
  /\ shadow.scn = "dup" /\ nops = Len(DupScript) + 1 /\ kv.open
  /\ last.op = "put" /\ last.rc = "OK" /\ last.db = 1
  /\ last.val = <<5, 0, 0, 0>> /\ "DUP_REMOVE" \in last.flags
  /\ \E p \in last.held0 : DupCount(p.val) = 3
  /\ LastSlots # {}

(***************************************************************************)
(* Threads, locks and worker counters (iwkv.c: API_*LOCK, _wnw,            *)
(* iwkv_close, iwkv_db_destroy and the sweeper _db_dispose_chain_thr)      *)
(***************************************************************************)
\* Exploration bounds: threads that call the API, databases, nodes of a
\* database, calls of a thread.
NumThr == 2

ConcDbs == 1

MaxChain == 2

MaxCalls == 2

Thr == 1 .. NumThr

CDbs == 1 .. ConcDbs

\* A handle is used as C requires: no call is made on a store after
\* iwkv_close was called on it, iwkv_close is called when no other call is
\* in progress, and iwkv_db_destroy of a database is called when no call and
\* no cursor uses that database.  Cursors may be open at a close, and the
\* sweepers of destroyed databases may be running.

\* pthread_rwlock_t: the thread that holds it for writing (0: none) and
\* the threads that hold it for reading.
NoLock == [w |-> 0, r |-> {}]

rdlock_ok(l) == l.w = 0

wrlock_ok(l) == l.w = 0 /\ l.r = {}

rdlock(l, t) == [l EXCEPT !.r = @ \cup {t}]

wrlock(l, t) == [l EXCEPT !.w = t]

rwlock_unlock(l, t) == IF l.w = t THEN [l EXCEPT !.w = 0] ELSE [l EXCEPT !.r = @ \ {t}]

\* The calls that take the lock of the database with API_DB_WLOCK, and
\* those that take it with API_DB_RLOCK.
DbWlockOps == {"put", "del", "cursor_set", "cursor_close"}

DbRlockOps == {"get", "cursor_to", "cursor_open"}

\* The lock of a database taken for reading by every call.
api_db_lock_shared(l, op) == rdlock_ok(l)

\* pthread_rwlock_wrlock / pthread_rwlock_rdlock of API_DB_WLOCK and
\* API_DB_RLOCK return.
api_db_lock_ok(l, op) == IF op \in DbWlockOps THEN wrlock_ok(l) ELSE rdlock_ok(l)

api_db_lock(l, op, t) == IF op \in DbWlockOps THEN wrlock(l, t) ELSE rdlock(l, t)

\* ENSURE_OPEN, and the test of _db_worker_inc_nolk.
ensure_open_any(s) == TRUE

ensure_open(s) == s.open

db_open(s, d) == s.open /\ s.db[d].open

\* _wnw that never waits.
wnw_waits_never(s) == FALSE

\* The loop condition of _wnw.
wnw_waits(s) == s.wk_count > 0

\* The blocks of a database: its header, and SBLK and KVBLK of a node.
DbBlock(d) == [db |-> d, node |-> 0, kind |-> "db"]

NodeBlocks(d, i) == {[db |-> d, node |-> i, kind |-> k] : k \in {"sblk", "kvblk"}}

\* n[0] of node sbn of database d as the file holds it: the nodes of a
\* database are chained at level 0.
dispose_next(s, d, sbn) == IF sbn < s.db[d].len THEN sbn + 1 ELSE 0

IdleThr == [pc |-> "idle", op |-> "none", db |-> 0, cur |-> 0, calls |-> 0,
            rc |-> "OK", waited |-> FALSE, dbflg |-> {}, late |-> "no"]

\* The database that iwkv_db may create during the run, and the modes it is
\* asked for.
NewDb == ConcDbs + 1

NewDbModes == {{}, {"DUP_UINT32_VALS"}}

NoSweeper == [pc |-> "off", sbn |-> 0, sba |-> 0, kvblkn |-> 0]

\* The store after iwkv_open and iwkv_db of every database; len is the
\* number of nodes of a database, dbp tells whether the variable of the
\* caller that iwkv_db_destroy was given the address of still exists.
ConcInit ==
  /\ \E len \in [CDbs -> 0 .. MaxChain - 1] :
       shared = [open |-> TRUE, freed |-> FALSE, fsclosed |-> FALSE,
                 rwl |-> NoLock, mtx |-> 0, wk_count |-> 0,
                 db |-> [d \in CDbs |-> [st |-> "live", open |-> TRUE, rwl |-> NoLock,
                                         wk_count |-> 0, len |-> len[d], dbp |-> "valid"]],
                 alloc |-> {DbBlock(d) : d \in CDbs}
                             \cup UNION {UNION {NodeBlocks(d, i) : i \in 1 .. len[d]} :
                                           d \in CDbs},
                 sw |-> [d \in CDbs |-> NoSweeper],
                 newdb |-> [st |-> "absent", dbflg |-> {}]]
  /\ threads = [t \in Thr |-> IdleThr]
  /\ fsm = <<>>
  /\ live = {}
  /\ flast = NoCall
  /\ kv = KvIdle
  /\ shadow = <<>>
  /\ last = NoCall
  /\ nops = 0

KeepRest == UNCHANGED <<fsm, live, flast, kv, shadow, last, nops>>

Goto(t, pc) == threads' = [threads EXCEPT ![t].pc = pc]

\* The call of thread t returns rc.
Ret(t, rc) ==
  [threads EXCEPT ![t].pc = "idle", ![t].op = "none", ![t].db = 0,
                  ![t].rc = rc, ![t].calls = @ + 1]

Return(t, rc) == threads' = Ret(t, rc)

\* pthread_cond_broadcast(&iwkv->wk_cond): every thread that sleeps in
\* pthread_cond_wait is woken and goes for the mutex.
Broadcast(thr) ==
  [u \in Thr |-> IF thr[u].pc = "wnw_sleep" THEN [thr[u] EXCEPT !.pc = "wnw_woken"]
                 ELSE thr[u]]

\* The counting of _db_worker_inc_nolk and _db_worker_dec_nolk on the
\* store and on database d, and of _iwkv_worker_inc_nolk and
\* _iwkv_worker_dec_nolk on the store alone.
db_worker_inc_nolk(s, d) == [s EXCEPT !.wk_count = @ + 1, !.db[d].wk_count = @ + 1]

db_worker_dec_store_only(s, d) == [s EXCEPT !.wk_count = @ - 1]

db_worker_dec_nolk(s, d) == [s EXCEPT !.wk_count = @ - 1, !.db[d].wk_count = @ - 1]

iwkv_worker_inc_nolk(s) == [s EXCEPT !.wk_count = @ + 1]

iwkv_worker_dec_nolk(s) == [s EXCEPT !.wk_count = @ - 1]

\* A thread calls put, del, get or a cursor function on a database.
Call ==
  /\ \A u \in Thr : threads[u].op # "close"
  /\ \E t \in Thr, op \in DbWlockOps \cup DbRlockOps, d \in CDbs :
       /\ threads[t].pc = "idle"
       /\ threads[t].calls < MaxCalls
       /\ shared.db[d].st = "live"
       /\ \A u \in Thr : ~(threads[u].op = "db_destroy" /\ threads[u].db = d)
       /\ op = "cursor_open" => threads[t].cur = 0
       /\ op \in {"cursor_close", "cursor_set", "cursor_to"} => threads[t].cur = d
       /\ threads' = [threads EXCEPT ![t].pc = IF op = "cursor_open" THEN "inc" ELSE "ensure",
                                     ![t].op = op, ![t].db = d, ![t].late = "no"]
  /\ UNCHANGED shared
  /\ KeepRest

\* _db_worker_inc_nolk at the start of iwkv_cursor_open.
WorkerInc ==
  /\ \E t \in Thr :
       /\ threads[t].pc = "inc"
       /\ shared.mtx = 0
       /\ IF ~db_open(shared, threads[t].db)
            THEN Return(t, "INVALID_STATE") /\ UNCHANGED shared
            ELSE /\ shared' = db_worker_inc_nolk(shared, threads[t].db)
                 /\ threads' = Broadcast([threads EXCEPT ![t].pc = "ensure"])
  /\ KeepRest

\* ENSURE_OPEN of API_RLOCK.  iwkv_cursor_open gives its worker count back
\* when the lock fails; the other calls return at once.
EnsureOpen ==
  /\ \E t \in Thr :
       /\ threads[t].pc = "ensure"
       /\ IF ensure_open(shared) THEN Goto(t, "rdlock")
          ELSE IF threads[t].op = "cursor_open"
            THEN threads' = [threads EXCEPT ![t].pc = "dec", ![t].rc = "INVALID_STATE"]
          ELSE Return(t, "INVALID_STATE")
  /\ UNCHANGED shared
  /\ KeepRest

\* pthread_rwlock_rdlock(&iwkv->rwl) of API_RLOCK
StoreRdlock ==
  /\ \E t \in Thr :
       /\ threads[t].pc = "rdlock"
       /\ rdlock_ok(shared.rwl)
       /\ shared' = [shared EXCEPT !.rwl = rdlock(@, t)]
       /\ Goto(t, IF threads[t].op = "db" THEN "gd_look" ELSE "dblock")
  /\ KeepRest

\* A thread calls iwkv_db for the database that the store may not hold yet.
DbCall ==
  /\ \A u \in Thr : threads[u].op # "close"
  /\ \E t \in Thr, dbflg \in NewDbModes :
       /\ threads[t].pc = "idle"
       /\ threads[t].calls < MaxCalls
       /\ threads' = [threads EXCEPT ![t].pc = "ensure", ![t].op = "db", ![t].late = "no",
                                     ![t].db = NewDb, ![t].dbflg = dbflg]
  /\ UNCHANGED shared
  /\ KeepRest

\* iwkv_db: the look-up under the read lock and API_UNLOCK; a database
\* that is there is returned, or refused for its mode.
DbLook ==
  /\ \E t \in Thr :
       /\ threads[t].pc = "gd_look"
       /\ shared' = [shared EXCEPT !.rwl = rwlock_unlock(@, t)]
       /\ IF shared.newdb.st = "absent" THEN Goto(t, "gd_wlock")
          ELSE IF shared.newdb.dbflg # threads[t].dbflg
            THEN Return(t, "INCOMPATIBLE_DB_MODE")
          ELSE Return(t, "OK")
  /\ KeepRest

\* iwkv_db: API_WLOCK (the store is not RDONLY)
DbWlock ==
  /\ \E t \in Thr :
       /\ threads[t].pc = "gd_wlock"
       /\ IF ~ensure_open(shared) THEN Return(t, "INVALID_STATE") /\ UNCHANGED shared
          ELSE /\ wrlock_ok(shared.rwl)
               /\ shared' = [shared EXCEPT !.rwl = wrlock(@, t)]
               /\ Goto(t, "gd_create")
  /\ KeepRest

\* iwkv_db under the write lock: the second look-up.  A database that has
\* appeared in another mode makes the call return at once; one in the same
\* mode is returned; otherwise _db_create_lw makes it.
DbCreate ==
  /\ \E t \in Thr :
       /\ threads[t].pc = "gd_create"
       /\ IF shared.newdb.st # "absent"
            THEN /\ UNCHANGED shared
                 /\ IF shared.newdb.dbflg # threads[t].dbflg
                      THEN Return(t, "INCOMPATIBLE_DB_MODE")
                      ELSE threads' = [threads EXCEPT ![t].pc = "gd_unlock", ![t].rc = "OK"]
            ELSE /\ shared' = [shared EXCEPT
                                 !.newdb = [st |-> "live", dbflg |-> threads[t].dbflg],
                                 !.alloc = @ \cup {DbBlock(NewDb)}]
                 /\ threads' = [threads EXCEPT ![t].pc = "gd_unlock", ![t].rc = "OK"]
  /\ KeepRest

\* iwkv_db: API_UNLOCK
DbUnlockStore ==
  /\ \E t \in Thr :
       /\ threads[t].pc = "gd_unlock"
       /\ shared' = [shared EXCEPT !.rwl = rwlock_unlock(@, t)]
       /\ Return(t, threads[t].rc)
  /\ KeepRest

\* pthread_rwlock_wrlock / rdlock(&db->rwl) of API_DB_WLOCK / API_DB_RLOCK
DbLock ==
  /\ \E t \in Thr :
       /\ threads[t].pc = "dblock"
       /\ api_db_lock_ok(shared.db[threads[t].db].rwl, threads[t].op)
       /\ shared' = [shared EXCEPT !.db[threads[t].db].rwl =
                                      api_db_lock(@, threads[t].op, t)]
       /\ Goto(t, "cs")
  /\ KeepRest

\* The work under the locks: a put may add a node to the database (its
\* SBLK and KVBLK are allocated); iwkv_cursor_open and _cursor_close_lw
\* make and end the cursor of the thread.  _cursor_to_lr of
\* iwkv_cursor_open may fail (the key is not found): the cursor is closed
\* again and the call returns the error.
Critical ==
  /\ \E t \in Thr, grow \in BOOLEAN, found \in BOOLEAN :
       LET d == threads[t].db
           n == shared.db[d].len + 1
       IN /\ threads[t].pc = "cs"
          /\ grow => threads[t].op = "put" /\ n <= MaxChain
          /\ ~found => threads[t].op = "cursor_open"
          /\ shared' = IF grow
                         THEN [shared EXCEPT !.db[d].len = n,
                                             !.alloc = @ \cup NodeBlocks(d, n)]
                         ELSE shared
          /\ threads' = [threads EXCEPT
                           ![t].pc = "dbunlock",
                           ![t].rc = IF found THEN "OK" ELSE "NOTFOUND",
                           ![t].cur = IF threads[t].op = "cursor_open" /\ found THEN d
                                      ELSE IF threads[t].op = "cursor_close" THEN 0
                                      ELSE @]
  /\ KeepRest

\* pthread_rwlock_unlock(&db->rwl) of API_DB_UNLOCK
DbUnlock ==
  /\ \E t \in Thr :
       /\ threads[t].pc = "dbunlock"
       /\ shared' = [shared EXCEPT !.db[threads[t].db].rwl = rwlock_unlock(@, t)]
       /\ Goto(t, "unlock")
  /\ KeepRest

\* API_UNLOCK at the end of API_DB_UNLOCK; iwkv_cursor_close, and
\* iwkv_cursor_open that failed, go on to _db_worker_dec_nolk.
StoreUnlock ==
  /\ \E t \in Thr :
       /\ threads[t].pc = "unlock"
       /\ shared' = [shared EXCEPT !.rwl = rwlock_unlock(@, t)]
       /\ IF threads[t].op = "cursor_close"
             \/ (threads[t].op = "cursor_open" /\ threads[t].rc # "OK")
            THEN Goto(t, "dec") ELSE Return(t, threads[t].rc)
  /\ KeepRest

\* _db_worker_dec_nolk
WorkerDec ==
  /\ \E t \in Thr :
       /\ threads[t].pc = "dec"
       /\ shared.mtx = 0
       /\ shared' = db_worker_dec_nolk(shared, threads[t].db)
       /\ threads' = Broadcast(Ret(t, threads[t].rc))
  /\ KeepRest

\* iwkv_close up to _wnw: ENSURE_OPEN, then iwkv->open = false.
CloseBegin ==
  /\ shared.open
  /\ \A u \in Thr : threads[u].pc = "idle"
  /\ \E t \in Thr :
       /\ threads' = [threads EXCEPT ![t].pc = "wnw_lock", ![t].op = "close"]
       /\ shared' = [shared EXCEPT !.open = FALSE]
  /\ KeepRest

\* iwkv_db_destroy up to _wnw (the store is not RDONLY).
DestroyBegin ==
  /\ \A u \in Thr : threads[u].op # "close"
  /\ \E t \in Thr, d \in CDbs :
       /\ threads[t].pc = "idle"
       /\ threads[t].calls < MaxCalls
       /\ shared.db[d].st = "live"
       /\ \A u \in Thr : threads[u].cur # d /\ ~(threads[u].pc # "idle" /\ threads[u].db = d)
       /\ threads' = [threads EXCEPT ![t].pc = "wnw_lock", ![t].op = "db_destroy",
                                     ![t].db = d, ![t].late = "no"]
  /\ UNCHANGED shared
  /\ KeepRest

\* _wnw: pthread_mutex_lock(&iwkv->wk_mtx)
WnwLock ==
  /\ \E t \in Thr :
       /\ threads[t].pc = "wnw_lock"
       /\ shared.mtx = 0
       /\ shared' = [shared EXCEPT !.mtx = t]
       /\ Goto(t, "wnw_test")
  /\ KeepRest

\* _wnw: the test of the loop; pthread_cond_wait gives the mutex up.
WnwWhile ==
  /\ \E t \in Thr :
       /\ threads[t].pc = "wnw_test"
       /\ IF wnw_waits(shared)
            THEN /\ shared' = [shared EXCEPT !.mtx = 0]
                 /\ threads' = [threads EXCEPT ![t].pc = "wnw_sleep", ![t].waited = TRUE]
            ELSE /\ Goto(t, "wnw_after")
                 /\ UNCHANGED shared
  /\ KeepRest

\* _wnw: pthread_cond_wait may wake without a broadcast.
WnwSpurious ==
  /\ \E t \in Thr :
       /\ threads[t].pc = "wnw_sleep"
       /\ Goto(t, "wnw_woken")
  /\ UNCHANGED shared
  /\ KeepRest

\* _wnw: pthread_cond_wait returns with the mutex.
WnwWake ==
  /\ \E t \in Thr :
       /\ threads[t].pc = "wnw_woken"
       /\ shared.mtx = 0
       /\ shared' = [shared EXCEPT !.mtx = t]
       /\ Goto(t, "wnw_test")
  /\ KeepRest

\* _wnw_iwkw_wl: pthread_rwlock_wrlock(&iwkv->rwl), with wk_mtx held
WnwAfter ==
  /\ \E t \in Thr :
       /\ threads[t].pc = "wnw_after"
       /\ wrlock_ok(shared.rwl)
       /\ shared' = [shared EXCEPT !.rwl = wrlock(@, t)]
       /\ Goto(t, "wnw_unlock")
  /\ KeepRest

\* _wnw: pthread_mutex_unlock(&iwkv->wk_mtx)
WnwUnlock ==
  /\ \E t \in Thr :
       /\ threads[t].pc = "wnw_unlock"
       /\ shared' = [shared EXCEPT !.mtx = 0]
       /\ Goto(t, IF threads[t].op = "close" THEN "cl_release" ELSE "dd_inc")
  /\ KeepRest

\* iwkv_close: _db_release_lw of every database of the chain from first_db
\* (a destroyed database has left the chain).
CloseRelease ==
  /\ \E t \in Thr :
       /\ threads[t].pc = "cl_release"
       /\ shared' = [shared EXCEPT !.db = [d \in CDbs |->
                                            IF @[d].st = "live"
                                              THEN [@[d] EXCEPT !.st = "closed"] ELSE @[d]],
                                   !.newdb.st = IF @ = "live" THEN "closed" ELSE @]
       /\ Goto(t, "cl_fsm")
  /\ KeepRest

\* iwkv_close: iwkv->fsm.close
CloseFsm ==
  /\ \E t \in Thr :
       /\ threads[t].pc = "cl_fsm"
       /\ shared' = [shared EXCEPT !.fsclosed = TRUE]
       /\ Goto(t, "cl_unlock")
  /\ KeepRest

\* iwkv_close: API_UNLOCK
CloseUnlock ==
  /\ \E t \in Thr :
       /\ threads[t].pc = "cl_unlock"
       /\ shared' = [shared EXCEPT !.rwl = rwlock_unlock(@, t)]
       /\ Goto(t, "cl_free")
  /\ KeepRest

\* iwkv_close: the locks are destroyed and the store is freed.
CloseFree ==
  /\ \E t \in Thr :
       /\ threads[t].pc = "cl_free"
       /\ shared' = [shared EXCEPT !.freed = TRUE]
       /\ Goto(t, "done")
  /\ KeepRest

\* iwkv_db_destroy: _iwkv_worker_inc_nolk
DestroyInc ==
  /\ \E t \in Thr :
       /\ threads[t].pc = "dd_inc"
       /\ shared.mtx = 0
       /\ IF ~shared.open
            THEN /\ threads' = [threads EXCEPT ![t].pc = "dd_unlock",
                                               ![t].rc = "INVALID_STATE"]
                 /\ UNCHANGED shared
            ELSE /\ shared' = iwkv_worker_inc_nolk(shared)
                 /\ threads' = Broadcast([threads EXCEPT ![t].pc = "dd_lw", ![t].rc = "OK"])
  /\ KeepRest

\* _db_destroy_lw: the database leaves the chain; with a first node the
\* sweeper is started and keeps the worker count, without one the record is
\* released here; the block of the header is deallocated.
DestroyLw ==
  /\ \E t \in Thr :
       LET d == threads[t].db
           first_sblkn == IF shared.db[d].len > 0 THEN 1 ELSE 0
       IN /\ threads[t].pc = "dd_lw"
          /\ IF first_sblkn # 0
               THEN /\ shared' = [shared EXCEPT
                                    !.db[d].open = FALSE, !.db[d].st = "disposing",
                                    !.sw[d] = [pc |-> "read", sbn |-> first_sblkn,
                                               sba |-> 0, kvblkn |-> 0],
                                    !.alloc = @ \ {DbBlock(d)}]
                    /\ Goto(t, "dd_unlock")
               ELSE /\ shared' = [shared EXCEPT !.db[d].st = "released",
                                                !.alloc = @ \ {DbBlock(d)}]
                    /\ Goto(t, "dd_dec")
  /\ KeepRest

\* _db_destroy_lw without a sweeper: _iwkv_worker_dec_nolk
DestroyDec ==
  /\ \E t \in Thr :
       /\ threads[t].pc = "dd_dec"
       /\ shared.mtx = 0
       /\ shared' = iwkv_worker_dec_nolk(shared)
       /\ threads' = Broadcast([threads EXCEPT ![t].pc = "dd_unlock"])
  /\ KeepRest

\* iwkv_db_destroy: API_UNLOCK
DestroyUnlock ==
  /\ \E t \in Thr :
       /\ threads[t].pc = "dd_unlock"
       /\ shared' = [shared EXCEPT !.rwl = rwlock_unlock(@, t)]
       /\ Return(t, threads[t].rc)
  /\ KeepRest

\* _db_dispose_chain_thr: the test of the loop and the reading of the
\* block of the KVBLK and of n[0] from the node at sbn.
SweepRead ==
  /\ \E d \in CDbs :
       /\ shared.sw[d].pc = "read"
       /\ shared' = IF shared.sw[d].sbn = 0
                      THEN [shared EXCEPT !.sw[d].pc = "release"]
                      ELSE [shared EXCEPT !.sw[d] =
                              [pc |-> "free_sblk", sba |-> @.sbn, kvblkn |-> @.sbn,
                               sbn |-> dispose_next(shared, d, @.sbn)]]
  /\ UNCHANGED threads
  /\ KeepRest

\* _db_dispose_chain_thr: fsm->deallocate of the SBLK
SweepFreeSblk ==
  /\ \E d \in CDbs :
       /\ shared.sw[d].pc = "free_sblk"
       /\ shared' = [shared EXCEPT
                       !.alloc = @ \ {[db |-> d, node |-> shared.sw[d].sba, kind |-> "sblk"]},
                       !.sw[d].pc = "free_kvblk"]
  /\ UNCHANGED threads
  /\ KeepRest

\* _db_dispose_chain_thr: fsm->deallocate of the KVBLK
SweepFreeKvblk ==
  /\ \E d \in CDbs :
       /\ shared.sw[d].pc = "free_kvblk"
       /\ shared' = [shared EXCEPT
                       !.alloc = IF shared.sw[d].kvblkn # 0
                                   THEN @ \ {[db |-> d, node |-> shared.sw[d].kvblkn,
                                              kind |-> "kvblk"]}
                                   ELSE @,
                       !.sw[d].pc = "read"]
  /\ UNCHANGED threads
  /\ KeepRest

\* The function that called iwkv_db_destroy(&db) has got its answer and
\* returns: its variable db is gone, dctx->dbp of the sweeper dangles.
CallerLeaves ==
  /\ \E d \in CDbs :
       /\ shared.db[d].st = "disposing"
       /\ shared.db[d].dbp = "valid"
       /\ \A u \in Thr : ~(threads[u].op = "db_destroy" /\ threads[u].db = d)
       /\ shared' = [shared EXCEPT !.db[d].dbp = "dangling"]
  /\ UNCHANGED threads
  /\ KeepRest

\* _db_dispose_chain_thr: _db_release_lw(dctx->dbp).  Through a dangling
\* dbp the record is freed if the memory still holds its address, and
\* something else is freed (the record is lost) if it does not.
SweepRelease ==
  /\ \E d \in CDbs, st \in {"released", "lost"} :
       /\ shared.sw[d].pc = "release"
       /\ shared.db[d].dbp = "valid" => st = "released"
       /\ shared' = [shared EXCEPT !.db[d].st = st, !.sw[d].pc = "dec"]
  /\ UNCHANGED threads
  /\ KeepRest

\* _db_dispose_chain_thr: _iwkv_worker_dec_nolk
SweepDec ==
  /\ \E d \in CDbs :
       /\ shared.sw[d].pc = "dec"
       /\ shared.mtx = 0
       /\ shared' = [iwkv_worker_dec_nolk(shared) EXCEPT !.sw[d].pc = "end"]
       /\ threads' = Broadcast(threads)
  /\ KeepRest

\* A call through a handle of a database after iwkv_db_destroy of it has
\* returned.  iwkv_cursor_open tests db->open in _db_worker_inc_nolk; the
\* other calls test the store alone (ENSURE_OPEN in API_DB_RLOCK and
\* API_DB_WLOCK), so they get past the test for as long as the record
\* exists.  Once the record is freed the test reads freed memory and may
\* come out either way.  A call that gets past the test goes on with a
\* database that is disposed of (rc UNDEFINED).  late tells of the last
\* call of a thread whether it was made on a destroyed database.
StaleCall ==
  /\ shared.open
  /\ \A u \in Thr : threads[u].op # "close"
  /\ \E t \in Thr, d \in CDbs, op \in {"put", "cursor_open"}, seen \in BOOLEAN :
       /\ threads[t].pc = "idle"
       /\ threads[t].calls < MaxCalls
       /\ shared.db[d].st \in {"disposing", "released", "lost"}
       /\ \A u \in Thr : ~(threads[u].op = "db_destroy" /\ threads[u].db = d)
       /\ shared.db[d].st # "released"
            => seen = IF op = "cursor_open" THEN db_open(shared, d) ELSE ensure_open(shared)
       /\ threads' = [Ret(t, IF seen THEN "UNDEFINED" ELSE "INVALID_STATE")
                        EXCEPT ![t].late = "destroyed"]
  /\ UNCHANGED shared
  /\ KeepRest

\* A call that starts after iwkv_close has set the store not open, through
\* the handle of a database (put, cursor_open; cursor_close, which takes
\* the database from the cursor) or of the store (db).  late
\* tells whether the record behind the handle still existed ("valid") or
\* had been freed by iwkv_close ("freed"): the test of the call then reads
\* freed memory and may come out either way, and a call that gets past it
\* goes on with a store that is gone (rc UNDEFINED).
LateCall ==
  /\ ~shared.open
  /\ \E t \in Thr, op \in {"put", "cursor_open", "cursor_close", "db"}, seen \in BOOLEAN :
       LET d == IF op = "db" THEN NewDb ELSE 1
           gone == IF op = "db" THEN shared.freed ELSE shared.db[1].st # "live"
       IN /\ threads[t].pc = "idle"
          /\ threads[t].calls < MaxCalls
          /\ op # "db" => shared.db[1].st \in {"live", "closed"}
          /\ op = "cursor_open" => threads[t].cur = 0
          /\ op = "cursor_close" => threads[t].cur = 1
          /\ ~gone => seen
          /\ threads' =
               IF gone
                 THEN [Ret(t, IF seen THEN "UNDEFINED" ELSE "INVALID_STATE")
                         EXCEPT ![t].late = "freed"]
                 ELSE [threads EXCEPT ![t].pc = IF op = "cursor_open" THEN "inc"
                                                ELSE "ensure",
                                      ![t].op = op, ![t].db = d, ![t].late = "valid"]
  /\ UNCHANGED shared
  /\ KeepRest

Sweep == SweepRead \/ SweepFreeSblk \/ SweepFreeKvblk \/ SweepRelease

ConcNext ==
  \/ Call \/ WorkerInc \/ EnsureOpen \/ StoreRdlock \/ DbLock \/ Critical
  \/ DbUnlock \/ StoreUnlock \/ WorkerDec
  \/ DbCall \/ DbLook \/ DbWlock \/ DbCreate \/ DbUnlockStore
  \/ CloseBegin \/ DestroyBegin \/ WnwLock \/ WnwWhile \/ WnwSpurious \/ WnwWake \/ WnwAfter \/ WnwUnlock
  \/ CloseRelease \/ CloseFsm \/ CloseUnlock \/ CloseFree
  \/ DestroyInc \/ DestroyLw \/ DestroyDec \/ DestroyUnlock
  \/ SweepRead \/ SweepFreeSblk \/ SweepFreeKvblk \/ SweepRelease \/ SweepDec
  \/ CallerLeaves \/ StaleCall \/ LateCall

SpecConc == ConcInit /\ [][ConcNext]_vars

\* The steps of a call that is under way, and those of iwkv_close.
CallStep ==
  \/ WorkerInc \/ EnsureOpen \/ StoreRdlock \/ DbLock \/ Critical
  \/ DbUnlock \/ StoreUnlock \/ WorkerDec
  \/ DbLook \/ DbWlock \/ DbCreate \/ DbUnlockStore
  \/ DestroyInc \/ DestroyLw \/ DestroyDec \/ DestroyUnlock

CloseStep ==
  \/ WnwLock \/ WnwWhile \/ WnwWake \/ WnwAfter \/ WnwUnlock
  \/ CloseRelease \/ CloseFsm \/ CloseUnlock \/ CloseFree

\* The sweeper is a thread of its own that waits for nothing until it has
\* released the record, and then for the mutex alone; a thread that is in
\* a call and can go on does so: the scheduler lets them take their steps.
\* A thread that stands at the mutex or at a lock gets it if it is free
\* again and again.  A wake-up of pthread_cond_wait without a broadcast
\* is never due.
SpecConcFair ==
  SpecConc /\ WF_vars(Sweep) /\ SF_vars(SweepDec) /\ SF_vars(CallStep) /\ WF_vars(CloseStep)

\* The blocks of database d that are allocated.
DbAlloc(d) == {b \in shared.alloc : b.db = d}

\* The pcs of iwkv_close behind _wnw.
TeardownPcs == {"cl_release", "cl_fsm", "cl_unlock", "cl_free", "done"}

\* C18: iwkv_close releases no resource of the store (database records,
\* the FSM file, the locks) while the worker count of the store is above
\* zero: every step of the teardown is taken with wk_count = 0, and no
\* sweeper is at work then.
C18_CloseWaits ==
  ((\E t \in Thr : threads[t].op = "close" /\ threads[t].pc \in TeardownPcs)
     \/ shared.fsclosed \/ shared.freed \/ (\E d \in CDbs : shared.db[d].st = "closed"))
    => /\ shared.wk_count = 0
       /\ \A d \in CDbs : shared.sw[d].pc \in {"off", "end"}

\* A close that had to wait for a sweeper has torn the store down.
C18_Witness ==
  /\ shared.freed
  /\ \E t \in Thr : threads[t].op = "close" /\ threads[t].waited
  /\ \E d \in CDbs : shared.sw[d].pc = "end"

InCs(t, d) == threads[t].pc = "cs" /\ threads[t].db = d

\* C19: while a writer (put, del, cursor set) is in its critical section
\* on a database, no other call is in its critical section on the same
\* database; calls that overlap there are readers.
C19_WriterExclusive ==
  \A d \in CDbs : \A t, u \in Thr :
    (t # u /\ InCs(t, d) /\ InCs(u, d))
      => (threads[t].op \in DbRlockOps /\ threads[u].op \in DbRlockOps)

\* A put is in its critical section while a get on the same database
\* stands at the lock of the database.
C19_Witness ==
  \E d \in CDbs : \E t, u \in Thr :
    /\ InCs(t, d) /\ threads[t].op = "put"
    /\ threads[u].pc = "dblock" /\ threads[u].db = d /\ threads[u].op = "get"

\* C20: after iwkv_db_destroy of a database with nodes the sweeper
\* eventually has deallocated every SBLK and every KVBLK of the database
\* and released its record; the record is never released before that.
\* (The blocks alone: C20_BlocksFreed.)
C20_SweepCompletes ==
  \A d \in CDbs :
    /\ (shared.db[d].st = "disposing")
         ~> (shared.db[d].st = "released" /\ DbAlloc(d) = {})
    /\ [](shared.db[d].st = "released" => DbAlloc(d) = {})

\* After iwkv_db_destroy of a database with nodes no block of it stays
\* allocated forever, whatever becomes of the record.
C20_BlocksFreed ==
  \A d \in CDbs :
    (shared.db[d].st = "disposing") ~> (shared.db[d].st # "disposing" /\ DbAlloc(d) = {})

\* C32: once iwkv_db_destroy of a database has returned, the database is
\* marked not open, whether it held a node or not, and every call through
\* a handle of it is refused.
C32_DestroyedRefused ==
  /\ \A d \in CDbs :
       (shared.db[d].st \in {"disposing", "released", "lost"}
          /\ \A u \in Thr : ~(threads[u].op = "db_destroy" /\ threads[u].db = d))
         => ~shared.db[d].open
  /\ \A t \in Thr :
       (threads[t].late = "destroyed" /\ threads[t].pc = "idle")
         => threads[t].rc = "INVALID_STATE"

\* The locks that thread t holds: of the store and of the databases.
HeldLocks(t) ==
  (IF shared.rwl.w = t \/ t \in shared.rwl.r THEN {"store"} ELSE {})
    \cup {d \in CDbs : shared.db[d].rwl.w = t \/ t \in shared.db[d].rwl.r}

\* C34: a thread that is in no call holds no lock: every call has released
\* the locks it took on the path it returned by; in particular the lock of
\* the store is not held after iwkv_db has returned.
C34_LocksReleased ==
  \A t \in Thr : threads[t].pc \in {"idle", "done"} => HeldLocks(t) = {}

\* A thread has a call under way that counts as a worker from
\* _db_worker_inc_nolk of iwkv_cursor_open on; a thread is in
\* iwkv_cursor_close between _cursor_close_lw and _db_worker_dec_nolk; a
\* thread is in iwkv_db_destroy between the counting up and down.
OpeningCursor(t) ==
  threads[t].op = "cursor_open" /\ threads[t].pc \notin {"idle", "inc"}

ClosingCursor(t) ==
  threads[t].op = "cursor_close" /\ threads[t].pc \in {"dbunlock", "unlock", "dec"}

Destroying(t) == threads[t].pc \in {"dd_lw", "dd_dec"}

\* The workers of database d and of the store: open cursors, calls of
\* iwkv_cursor_open and iwkv_cursor_close under way, calls of
\* iwkv_db_destroy under way and sweepers.
DbWorkers(d) ==
  Cardinality({t \in Thr : threads[t].cur = d /\ ~OpeningCursor(t)})
    + Cardinality({t \in Thr : threads[t].db = d
                                 /\ (OpeningCursor(t) \/ ClosingCursor(t))})

Workers ==
  Cardinality({t \in Thr : threads[t].cur # 0 /\ ~OpeningCursor(t)})
    + Cardinality({t \in Thr : OpeningCursor(t) \/ ClosingCursor(t) \/ Destroying(t)})
    + Cardinality({d \in CDbs : shared.sw[d].pc \notin {"off", "end"}})

\* C35: the worker counts of the store and of every database are never
\* negative and count the open cursors and the calls and sweepers under
\* way: an iwkv_cursor_open that succeeds leaves the count raised by one, a
\* failed one and iwkv_cursor_close lower it again, and with every cursor
\* closed and nothing running the counts are zero.
C35_WorkersBalanced ==
  ~shared.freed =>
    /\ shared.wk_count >= 0
    /\ shared.wk_count = Workers
    /\ \A d \in CDbs :
         shared.db[d].st \in {"live", "disposing"} =>
           shared.db[d].wk_count >= 0 /\ shared.db[d].wk_count = DbWorkers(d)

\* One thread holds the cursor it opened, the iwkv_cursor_open of another
\* has failed, and nothing is running: the count is one.
C35_Witness ==
  /\ shared.open /\ shared.wk_count = 1
  /\ \A t \in Thr : threads[t].pc = "idle"
  /\ \E t \in Thr : threads[t].cur # 0 /\ threads[t].rc = "OK"
  /\ \E t \in Thr : threads[t].cur = 0 /\ threads[t].rc = "NOTFOUND"

NoCursors == \A t \in Thr : threads[t].cur = 0

Closing == \E t \in Thr : threads[t].op = "close"

Closed == \E t \in Thr : threads[t].op = "close" /\ threads[t].pc = "done"

\* C36: if in the end no cursor is open (calls and sweepers finish by the
\* scheduling of SpecConcFair), an iwkv_close that has been called returns.
C36_CloseReturns == (<>[]NoCursors) => (Closing ~> Closed)

\* ---------------------------------------------------------------------
\* The block address locks of the older kv module (part_000): db->aln maps
\* a block number to a lock node (ALN) with a read/write lock, a count of
\* references and the mark of a pending writer; db->mtx_ctl guards the map
\* and the counts.  One block number is modelled.  shared.aln is the entry
\* of the block in db->aln (0: none) and shared.nodes the nodes malloc has
\* returned so far, the freed ones included; of a thread, aln is the local
\* pointer of the call in progress, hold the lock the thread was given by
\* its last acquire and has not released, and on the node that lock is on.
\* The acquiring calls have no caller in the module; the threads use them
\* as their names say: acquire_read without a lock, acquire_write_upgrade
\* with the read lock, release with either lock.
\* ---------------------------------------------------------------------
NumAlnThr == 3

MaxAlnNodes == 3

MaxAlnCalls == 2

AlnThr == 1 .. NumAlnThr

AlnIdleThr == [pc |-> "idle", aln |-> 0, hold |-> "none", on |-> 0, calls |-> 0, rc |-> "OK"]

\* The node after malloc, kh_put, refs = 1 and pthread_rwlock_init.
NewAln(write_pending) ==
  [refs |-> 1, write_pending |-> write_pending, rd |-> {}, wr |-> 0, freed |-> FALSE]

\* pthread_rwlock_unlock(&aln->rwl) by thread t: the lock states that may
\* follow.  Unlocking a lock the thread does not hold is undefined: the
\* lock is left as it is, or one of its holders loses it.
AlnUnlocked(n, t) ==
  IF t \in n.rd THEN {[n EXCEPT !.rd = @ \ {t}]}
  ELSE IF n.wr = t THEN {[n EXCEPT !.wr = 0]}
  ELSE {n} \cup {[n EXCEPT !.rd = @ \ {r}] : r \in n.rd}
           \cup (IF n.wr # 0 THEN {[n EXCEPT !.wr = 0]} ELSE {})

\* _aln_release under db->mtx_ctl: the states of map and nodes that may follow.
aln_release(s, t) ==
  LET k == s.aln
      Dec(u) == [u EXCEPT !.refs = @ - 1]
      Go(n1) == IF n1.refs < 1 /\ ~n1.write_pending
                  THEN [s EXCEPT !.aln = 0, !.nodes[k] = [n1 EXCEPT !.freed = TRUE]]
                ELSE [s EXCEPT !.nodes[k] = n1]
  IN IF k = 0 THEN {s} ELSE {Go(Dec(u)) : u \in AlnUnlocked(s.nodes[k], t)}

AlnInit ==
  /\ shared = [aln |-> 0, nodes |-> <<>>]
  /\ threads = [t \in AlnThr |-> AlnIdleThr]
  /\ fsm = <<>>
  /\ live = {}
  /\ flast = NoCall
  /\ kv = KvIdle
  /\ shadow = <<>>
  /\ last = NoCall
  /\ nops = 0

\* _aln_acquire_read up to pthread_mutex_unlock; ok: malloc and kh_put succeed.
AlnAcquireRead ==
  /\ \E t \in AlnThr, ok \in BOOLEAN :
       /\ threads[t].pc = "idle" /\ threads[t].hold = "none"
       /\ threads[t].calls < MaxAlnCalls
       /\ IF shared.aln = 0
            THEN IF ok
                   THEN /\ Len(shared.nodes) < MaxAlnNodes
                        /\ shared' = [shared EXCEPT !.aln = Len(shared.nodes) + 1,
                                                    !.nodes = Append(@, NewAln(FALSE))]
                        /\ threads' = [threads EXCEPT ![t].pc = "rdlock",
                                                      ![t].aln = Len(shared.nodes) + 1,
                                                      ![t].calls = @ + 1]
                 ELSE /\ UNCHANGED shared
                      /\ threads' = [threads EXCEPT ![t].rc = "ALLOC", ![t].calls = @ + 1]
          ELSE /\ ok
               /\ shared' = [shared EXCEPT !.nodes[shared.aln].refs = @ + 1]
               /\ threads' = [threads EXCEPT ![t].pc = "rdlock", ![t].aln = shared.aln,
                                             ![t].calls = @ + 1]
  /\ KeepRest

\* _aln_acquire_read: pthread_rwlock_rdlock returns.  On a freed node the
\* call is undefined: it is served as if the node were still there, or the
\* thread is lost.
AlnRdlock ==
  /\ \E t \in AlnThr :
       /\ threads[t].pc = "rdlock"
       /\ \/ /\ shared.nodes[threads[t].aln].wr = 0
             /\ shared' = [shared EXCEPT !.nodes[threads[t].aln].rd = @ \cup {t}]
             /\ threads' = [threads EXCEPT ![t].pc = "idle", ![t].hold = "read",
                                           ![t].on = threads[t].aln, ![t].rc = "OK"]
          \/ /\ shared.nodes[threads[t].aln].freed
             /\ UNCHANGED shared
             /\ threads' = [threads EXCEPT ![t].pc = "lost"]
  /\ KeepRest

\* _aln_acquire_write_upgrade up to pthread_mutex_unlock, called with the
\* read lock.
AlnAcquireWriteUpgrade ==
  /\ \E t \in AlnThr, ok \in BOOLEAN :
       /\ threads[t].pc = "idle" /\ threads[t].hold = "read"
       /\ threads[t].calls < MaxAlnCalls
       /\ IF shared.aln = 0
            THEN IF ok
                   THEN /\ Len(shared.nodes) < MaxAlnNodes
                        /\ shared' = [shared EXCEPT !.aln = Len(shared.nodes) + 1,
                                                    !.nodes = Append(@, NewAln(TRUE))]
                        /\ threads' = [threads EXCEPT ![t].pc = "wrlock",
                                                      ![t].aln = Len(shared.nodes) + 1,
                                                      ![t].hold = "none", ![t].on = 0,
                                                      ![t].calls = @ + 1]
                 ELSE /\ UNCHANGED shared
                      /\ threads' = [threads EXCEPT ![t].rc = "ALLOC", ![t].calls = @ + 1]
          ELSE /\ ok
               /\ \E u \in AlnUnlocked(shared.nodes[shared.aln], t) :
                    shared' = [shared EXCEPT !.nodes[shared.aln] =
                                               [u EXCEPT !.refs = @ - 1,
                                                         !.write_pending = TRUE]]
               /\ threads' = [threads EXCEPT ![t].pc = "wrlock", ![t].aln = shared.aln,
                                             ![t].hold = "none", ![t].on = 0,
                                             ![t].calls = @ + 1]
  /\ KeepRest

\* _aln_acquire_write_upgrade: pthread_rwlock_wrlock returns 0.
AlnWrlock ==
  /\ \E t \in AlnThr :
       /\ threads[t].pc = "wrlock"
       /\ \/ /\ shared.nodes[threads[t].aln].wr = 0
             /\ shared.nodes[threads[t].aln].rd = {}
             /\ shared' = [shared EXCEPT !.nodes[threads[t].aln].wr = t]
             /\ threads' = [threads EXCEPT ![t].pc = "wrdone"]
          \/ /\ shared.nodes[threads[t].aln].freed
             /\ UNCHANGED shared
             /\ threads' = [threads EXCEPT ![t].pc = "lost"]
  /\ KeepRest

\* _aln_acquire_write_upgrade: aln->refs = 1 and aln->write_pending = false,
\* written without db->mtx_ctl.
AlnWrDone ==
  /\ \E t \in AlnThr :
       /\ threads[t].pc = "wrdone"
       /\ shared' = [shared EXCEPT !.nodes[threads[t].aln].refs = 1,
                                   !.nodes[threads[t].aln].write_pending = FALSE]
       /\ threads' = [threads EXCEPT ![t].pc = "idle", ![t].hold = "write",
                                     ![t].on = threads[t].aln, ![t].rc = "OK"]
  /\ KeepRest

\* _aln_release, called with a lock.
AlnRelease ==
  /\ \E t \in AlnThr :
       /\ threads[t].pc = "idle" /\ threads[t].hold # "none"
       /\ \E s2 \in aln_release(shared, t) : shared' = s2
       /\ threads' = [threads EXCEPT ![t].hold = "none", ![t].on = 0, ![t].rc = "OK"]
  /\ KeepRest

AlnNext ==
  \/ AlnAcquireRead
  \/ AlnRdlock
  \/ AlnAcquireWriteUpgrade
  \/ AlnWrlock
  \/ AlnWrDone
  \/ AlnRelease

SpecAln == AlnInit /\ [][AlnNext]_vars

\* The threads that hold the lock of the block for reading or for writing.
AlnHolders(kind) == {t \in AlnThr : threads[t].hold = kind}

\* The threads that have a reference to node k: they hold its lock, or they
\* have counted themselves and wait for it.
AlnUsers(k) ==
  {t \in AlnThr : \/ threads[t].hold # "none" /\ threads[t].on = k
                  \/ threads[t].pc = "rdlock" /\ threads[t].aln = k}

\* The threads a call of which is at work on node k.
AlnCallers(k) ==
  {t \in AlnThr : threads[t].pc \in {"rdlock", "wrlock", "wrdone"} /\ threads[t].aln = k}

\* At most one thread holds the lock for writing, and no reader with it.
C40_Exclusive ==
  /\ Cardinality(AlnHolders("write")) <= 1
  /\ AlnHolders("write") # {} => AlnHolders("read") = {}

\* refs of a node is the number of the threads that hold or await its lock
\* (but between the grant of the write lock and the assignment of refs).
C40_RefsCount ==
  \A k \in DOMAIN shared.nodes :
    (~shared.nodes[k].freed /\ \A t \in AlnThr : ~(threads[t].pc = "wrdone" /\ threads[t].aln = k)) =>
      shared.nodes[k].refs = Cardinality(AlnUsers(k))

\* No thread holds or awaits the lock of a freed node.
C40_FreedAtZero ==
  \A k \in DOMAIN shared.nodes :
    shared.nodes[k].freed => AlnUsers(k) \cup AlnCallers(k) = {}

\* C40: for any interleaving of acquire_read, acquire_write_upgrade and
\* release on one block number, at most one thread holds the lock of the
\* block for writing and no reader holds it at the same time; the
\* reference count of the lock node equals the number of its holders, and
\* the node is freed only when that count has reached zero.
C40_AddressLocks ==
  /\ C40_Exclusive
  /\ C40_RefsCount
  /\ C40_FreedAtZero

====
